---- MODULE Spec2Model ----
(***************************************************************************)
(* Verification model of the ethpandaops MCP server: the credential proxy  *)
(* (authenticators, middleware chain, rate limiters), the per-execution    *)
(* token flow of the run command, the sandbox environment builders and the *)
(* rate-limit middleware of the MCP server.                                *)
(*                                                                         *)
(* Each subsystem has its own specification (SpecTrusted, SpecClientIP,    *)
(* ...) over its own group of variables; the variables of the other        *)
(* subsystems stay at their initial value in it.                           *)
(***************************************************************************)
EXTENDS Integers, Sequences, FiniteSets, TLC

(***************************************************************************)
(* Bounds of the model.                                                    *)
(***************************************************************************)
\* width, in bits, of the modelled IP address space
AddrBits == 2
\* longest trusted_proxies list
MaxProxies == 2
\* most entries of an X-Forwarded-For header
MaxXff == 2
\* number of distinct non-empty strings a configuration field can hold
NumStrs == 2
\* most instances (clusters) of one plugin's configuration
MaxInstances == 1
\* most invocations of the run command
MaxRuns == 2
\* last tick of the clock
MaxTime == 3
\* most tokens the store generates
MaxTokens == 2
\* number of execution ids
NumExecutions == 2
\* auth.token_ttl, in ticks
TokenTTL == 2
\* number of key ids the identity provider uses
NumKids == 2
\* largest configured burst_size of a rate-limit rule
MaxBurst == 2

VARIABLES
    \* ---- pkg/middleware: client IP resolution ----
    TrustedProxies,   \* RateLimitConfig.TrustedProxies
    ipOp,             \* which function was called last: "none", "isTrustedProxy", "getClientIP"
    ipArg,            \* the argument of the call: an IP text, or a request
    ipOut,            \* its result
    \* ---- sandbox environment builders ----
    envOp,            \* which builder ran: "none", "registry", "execute_python", "rejected"
    envArg,           \* its input: the initialized plugins, or the config and the tool request
    envOut,           \* the environment map it produced
    \* ---- the clock ----
    now,              \* time.Now(), in ticks
    \* ---- cmd: the run command ----
    runPc,            \* "idle", "executing" (inside sandboxSvc.Execute), "returned", "exited"
    runArgs,          \* flags and surroundings of the current invocation
    runCount,         \* invocations so far
    executionID,      \* uuid.New() of the current invocation, 0 before
    proxyToken,       \* env["ETHPANDAOPS_PROXY_TOKEN"] handed to the sandbox, 0 when empty
    registered,       \* execution ids RegisterToken was called with
    revoked,          \* execution ids RevokeToken was called with
    rejectedTokens,   \* tokens the proxy has stopped accepting before their expiry
    \* ---- pkg/proxy: the token store ----
    tokens,           \* TokenStore: token -> (execution id, expiry)
    generated,        \* how many tokens the store has generated
    issued,           \* history: every token Register returned, with its revocation
    tokOp,            \* the store's last call when it was a Validate: token, time, result
    \* ---- pkg/proxy: the JWT validator ----
    jwtCfg,           \* JWTValidatorConfig
    keys,             \* jwtValidator.keys: the kids of the JWKS map (kid -> public key)
    jwtArg,           \* the Validate call in progress: its token, its time, the key it found
    jwtOut,           \* its result
    \* ---- pkg/proxy: the standalone proxy, one request on a per-kind route ----
    proxyCfg,         \* StandaloneConfig: auth mode, rate limiting, audit
    limiters,         \* RateLimiter.limiters: user id -> token bucket
    req,              \* the request being served
    reqAt,            \* 0: none; i: about to enter layer i of the chain; beyond: returning
    trace,            \* the layers the request has entered, in order
    resp,             \* the response written for it
    ctxUser,          \* userIDKey of the request's context, 0 when unset
    reqTook,          \* limiter tokens the request has consumed
    reqMade,          \* whether the request has created a limiter entry
    reqLimiter,       \* the bucket getLimiter has returned to the request
    reqAudited,       \* whether an audit entry has been logged for it
    \* ---- pkg/middleware: the in-memory limiter, one key ----
    rule,             \* the config.RateLimitRule of the key
    imlLimiters,      \* iml.limiters[key]: the entry the map holds for the key, 0 when none
    entries,          \* the heap: every *inMemoryEntry still referenced
    callerPc,         \* where each caller of Allow stands
    callerEntry,      \* the entry each caller holds, 0 when none
    allowedAt,        \* history: how many requests were allowed in each minute
    nextSweep,        \* when the cleanup ticker fires next
    \* ---- pkg/middleware: the rate-limit middleware, one client and tool ----
    mwCfg,            \* config.RateLimitConfig: Enabled, and the rule getRule returns
    mwMap,            \* iml.limiters[key]: the address of the key's entry, 0 when none
    mwEntries,        \* the entries the map or a request refers to
    mwPc,             \* where each request stands in the middleware
    mwHeld,           \* the entry getOrCreateEntry has returned to each request
    mwInfo,           \* the RateLimitInfo each request has built
    mwFresh,          \* history: the entry of the map was made at this instant
    mwDecided,        \* history: the requests decided on that entry since
    mwSeq,            \* history: the last request was the k-th decided on the entry made at this instant
    mwResp,           \* the response to the last request
    \* ---- pkg/config: rule normalization ----
    rpArg,            \* the config.RateLimitRule the getters are called on
    rpOut,            \* what they returned
    \* ---- pkg/proxy: the life of the JWT validator inside the proxy ----
    \* (its key map is the variable keys)
    jsLatest,         \* history: the signing RSA kids of the latest JWKS document decoded
    jsLast,           \* history: the last refresh attempt, and the map before it
    valPhase,         \* jwtValidator.Start: "new", "started", "failed"
    loop,             \* each refreshLoop goroutine: "none", "waiting", "exited"
    tickPending,      \* for each goroutine: a tick waits in its ticker.C
    stopped,          \* jwtValidator.stopped
    stopChClosed,     \* stopCh is closed
    stopPc,           \* where each caller of Stop stands: "idle", "closing", "returned"
    stopPanic,        \* history: a close of the closed stopCh
    lateRefresh,      \* history: a refresh that began after a Stop had returned
    svStarted,        \* standaloneService.started
    svBound,          \* the listen socket is bound
    svErr,            \* what standaloneService.Start returned, "" for nil, "none" before
    svPc,             \* standaloneService.Start, holding s.mu: "idle", "binding"
    startLast,        \* history: the fetch that failed the last Start, the goroutines then
    \* ---- the sandbox session manager and the executions in its sessions ----
    sessions,         \* the session table: id -> session
    nextId,           \* the id the next session gets (ids are never reused)
    execs,            \* the execution of each caller: where it stands, in which session
    sessOut,          \* the operation that has just returned, and its result
    idleSweptAt,      \* when the idle reaper last ran
    \* ---- the sandbox executor: the runs of Execute and their child processes ----
    exPc,             \* where the Execute call of each caller stands
    exChild,          \* the child process group of each call: "none", "running", "signalled", "exited"
    exLock,           \* the caller holding the session mutex, "" if none
    exOut,            \* what the last Execute call of each caller returned
    \* ---- pkg/proxy/handlers: an upstream handler and one request to it ----
    upKind,           \* which handler: "cbt", "prometheus", "loki", "s3"
    upCfgs,           \* the configs the handler was built from
    upReq,            \* the request
    upResp,           \* the response, NoUpResp before ServeHTTP
    \* ---- pkg/proxy: the life of the standalone proxy service ----
    lcMode,           \* cfg.Auth.Mode: "token" or "jwt"
    lcRateLimited,    \* cfg.RateLimiting.Enabled
    lcSvc,            \* the service: started, its listener, its background loops and their stop channels
    lcPending,        \* GET /ready requests inside the handler
    lcPhase,          \* history: "new", "started" (a Start returned nil), "stopped" (a Stop returned since)
    lcLast,           \* the call that has just returned, and what it returned
    \* ---- pkg/plugin: the registry, its initialized plugins and their start and stop ----
    regMocks,         \* how each mock plugin behaves when started and stopped
    regInit,          \* Registry.initialized: the names of the plugins, in order
    regLast,          \* the registry call that has just returned, and what it did
    \* ---- pkg/auth/store and the remote proxy adapter: the credentials file and EnsureAuthenticated ----
    auFile,           \* the credentials file: absent, unreadable, not JSON, or the stored tokens
    auNow,            \* time.Now(), in ticks
    auLast,           \* the buildProxyClient call, or the run, that has just ended
    auRun,            \* the run command in progress: where it stands, the tokens its store has cached
    \* ---- cmd: one invocation of the run command and the exit status of the process ----
    xsLast,           \* the last invocation: its flags, what Execute returned, how the process ended
    \* ---- pkg/config and pkg/tool: the timeout of an execute_python call ----
    toLast,           \* the last configuration loaded and the last call made under it
    \* ---- pkg/proxy: one user's limiter under concurrent Allow calls and the cleanup ----
    plCfg,            \* the rate limiter configuration
    plMap,            \* RateLimiter.limiters[user]: the number of the bucket, 0 when absent
    plBuckets,        \* the buckets created so far that are still referenced
    plPc,             \* where each caller of Allow stands
    plHeld,           \* the bucket getLimiter returned to each caller
    plRef,            \* the bucket of the run in which cleanup never happens
    plNow,            \* time.Now(), in minutes
    plRaced,          \* a bucket was removed while a caller held it
    plLast,           \* the last decision, and the decision of the run without cleanup
    \* ---- pkg/middleware: Close of the in-memory limiter ----
    clRule,           \* the rule of the requests
    clStopCh,         \* inMemoryLimiter.stopCh, open or closed
    clLoop,           \* the cleanupLoop goroutine, running or exited
    clMap,            \* inMemoryLimiter.limiters[key]: the address of the entry, 0 when absent
    clEntries,        \* the entries the map or a caller of Allow refers to
    clPc,             \* where each caller of Close or Allow stands
    clHeld,           \* the entry getOrCreateEntry has found for each caller of Allow
    clPanic,          \* the panic that ended the process, if any
    clNow,            \* time.Now(), in minutes
    clSweep,          \* the minute of the next tick of the cleanup ticker
    clLast,           \* the last call answered
    \* ---- cmd/mcp/cmd: the datasource of an audit entry ----
    adHandlers,       \* the datasources whose handler is registered
    adLast            \* the last request and its audit entry, if one was logged

ipVars == <<TrustedProxies, ipOp, ipArg, ipOut>>

envVars == <<envOp, envArg, envOut>>

runVars == <<runPc, runArgs, runCount, executionID, proxyToken, registered, revoked,
            rejectedTokens>>

tokVars == <<tokens, generated, issued, tokOp>>

jwtVars == <<jwtCfg, keys, jwtArg, jwtOut>>

pxVars == <<proxyCfg, limiters, req, reqAt, trace, resp, ctxUser, reqTook, reqMade, reqLimiter, reqAudited>>

rlVars == <<rule, imlLimiters, entries, callerPc, callerEntry, allowedAt, nextSweep>>

mwVars == <<mwCfg, mwMap, mwEntries, mwPc, mwHeld, mwInfo, mwFresh, mwDecided, mwSeq, mwResp>>

rpVars == <<rpArg, rpOut>>

jsVars == <<jsLatest, jsLast, valPhase, loop, tickPending, stopped, stopChClosed, stopPc,
           stopPanic, lateRefresh, svStarted, svBound, svErr, svPc, startLast>>

sessVars == <<sessions, nextId, execs, sessOut, idleSweptAt>>

exVars == <<exPc, exChild, exLock, exOut>>

upVars == <<upKind, upCfgs, upReq, upResp>>

lcVars == <<lcMode, lcRateLimited, lcSvc, lcPending, lcPhase, lcLast>>

regVars == <<regMocks, regInit, regLast>>

auVars == <<auFile, auNow, auLast, auRun>>

xsVars == <<xsLast>>

toVars == <<toLast>>

plVars == <<plCfg, plMap, plBuckets, plPc, plHeld, plRef, plNow, plRaced, plLast>>

clVars == <<clRule, clStopCh, clLoop, clMap, clEntries, clPc, clHeld, clPanic, clNow, clSweep, clLast>>

adVars == <<adHandlers, adLast>>

vars == <<ipVars, envVars, now, runVars, tokVars, jwtVars, pxVars, rlVars, mwVars, rpVars, jsVars, sessVars, exVars, upVars, lcVars, regVars, auVars, xsVars, toVars, plVars, clVars, adVars>>

\* the empty map[string]string
EmptyEnv == [k \in {} |-> 0]

\* The value every group of variables has in the specifications of the other
\* subsystems.
ipIdle == TrustedProxies = <<>> /\ ipOp = "none" /\ ipArg = 0 /\ ipOut = FALSE

envIdle == envOp = "none" /\ envArg = 0 /\ envOut = EmptyEnv

\* the value of runArgs before the first invocation
NoRunArgs == [code |-> FALSE, file |-> FALSE, fileReadable |-> FALSE, json |-> FALSE,
              setupFails |-> FALSE, isAuthenticated |-> FALSE, accessToken |-> 0, jwtExp |-> 0]

runIdle ==
    /\ runPc = "idle" /\ runArgs = NoRunArgs /\ runCount = 0 /\ executionID = 0
    /\ proxyToken = 0 /\ registered = {} /\ revoked = {} /\ rejectedTokens = {}

NoValidate == [op |-> "none", token |-> 0, at |-> 0, out |-> 0]

tokIdle == tokens = EmptyEnv /\ generated = 0 /\ issued = EmptyEnv /\ tokOp = NoValidate

NoJWT == [alg |-> "", kid |-> 0, signer |-> 0, iss |-> "", aud |-> <<>>, groups |-> {},
          exp |-> 0, nbf |-> 0, at |-> 0, known |-> {}]

NoResult == [ok |-> FALSE, err |-> "none"]

NoJWTConfig == [Issuer |-> "", Audience |-> "", AllowedOrgs |-> {}]

jwtIdle == jwtCfg = NoJWTConfig /\ keys = {} /\ jwtArg = NoJWT /\ jwtOut = NoResult

BlankJWT == [alg |-> "", kid |-> 0, signer |-> 0, iss |-> "", aud |-> <<>>, groups |-> {},
             exp |-> 0, nbf |-> 0]

NoRequest == [Authorization |-> "", token |-> 0, jwt |-> BlankJWT, sub |-> 0]

\* headers: the headers the middleware chain has set on the response
NoResponse == [status |-> 0, body |-> "", headers |-> EmptyEnv]

NoProxyConfig == [Mode |-> "", RateLimiting |-> [Enabled |-> FALSE, RequestsPerMinute |-> 0,
                                                BurstSize |-> 0],
                  Audit |-> [Enabled |-> FALSE]]

\* the request holds no bucket of the rate limiter
NoHeld == [state |-> "none", tokens |-> 0, last |-> 0]

pxIdle ==
    /\ proxyCfg = NoProxyConfig /\ limiters = EmptyEnv /\ req = NoRequest /\ reqAt = 0
    /\ trace = <<>> /\ resp = NoResponse /\ ctxUser = 0 /\ reqTook = 0
    /\ reqMade = FALSE /\ reqAudited = FALSE
    /\ reqLimiter = NoHeld

\* the goroutines calling Allow for the key
Callers == {"a", "b"}

\* addresses of the heap: every caller can hold one entry, the map one more
EntryIds == 1..(Cardinality(Callers) + 1)

NoRule == [RequestsPerSecond |-> 0, RequestsPerMinute |-> 0, BurstSize |-> 0,
           BlockDuration |-> 0]

\* a free address of the heap
NoEntry == [limiter |-> [limit |-> 0, burst |-> 0, tokens |-> 0, last |-> 0],
            lastUsed |-> 0, resetAt |-> 0, burstSize |-> 0, ratePerSec |-> 0]

rlIdle ==
    /\ rule = NoRule /\ imlLimiters = 0 /\ entries = [e \in EntryIds |-> NoEntry]
    /\ callerPc = [c \in Callers |-> "idle"] /\ callerEntry = [c \in Callers |-> 0]
    /\ allowedAt = <<>> /\ nextSweep = 0

NoRateLimitConfig == [Enabled |-> FALSE, rule |-> NoRule]

\* no request served yet
NoMwResponse == [status |-> 0, RetryAfter |-> -1, Limit |-> -1, Remaining |-> -1,
                 ResetAt |-> -1, next |-> FALSE]

mwIdle ==
    /\ mwCfg = NoRateLimitConfig /\ mwMap = 0 /\ mwSeq = 0 /\ mwResp = NoMwResponse
    /\ mwEntries = <<>>
    /\ mwPc = EmptyEnv
    /\ mwHeld = EmptyEnv
    /\ mwInfo = EmptyEnv
    /\ mwFresh = FALSE
    /\ mwDecided = 0

\* before the getters are called
NoRuleOut == [called |-> FALSE, RequestsPerSecond |-> 0, BurstSize |-> 0, BlockDuration |-> 0]

rpIdle == rpArg = NoRule /\ rpOut = NoRuleOut

\* no JWKS document fetched yet
NoJwks == [got |-> FALSE, rsaSig |-> {}, usable |-> {}]

\* no refresh attempted yet
NoRefresh == [outcome |-> "none", before |-> {}]

\* no Start failed at its fetch
NoStart == [outcome |-> "none", loops |-> 0]

\* the refresh goroutines of the validator: one for each caller's Start
Loops == 1..Cardinality(Callers)

jsIdle ==
    /\ jsLatest = NoJwks /\ jsLast = NoRefresh /\ valPhase = "new"
    /\ loop = [g \in Loops |-> "none"]
    /\ tickPending = [g \in Loops |-> FALSE] /\ stopped = FALSE /\ stopChClosed = FALSE
    /\ stopPc = [c \in Callers |-> "idle"] /\ stopPanic = FALSE /\ lateRefresh = FALSE
    /\ svStarted = FALSE /\ svBound = FALSE /\ svErr = "none"
    /\ svPc = "idle" /\ startLast = NoStart

\* a caller with no execution
NoExec == [pc |-> "idle", sid |-> 0]

\* no operation has just returned
NoSessOut == [op |-> "none", err |-> "", created |-> FALSE, existed |-> FALSE,
              ownerMatches |-> FALSE, unchanged |-> TRUE]

sessIdle ==
    /\ sessions = EmptyEnv /\ nextId = 1 /\ execs = [c \in Callers |-> NoExec]
    /\ sessOut = NoSessOut /\ idleSweptAt = 0

\* Execute has not been called
NoRun == [pc |-> "idle", session |-> "", cause |-> ""]

exIdle ==
    /\ exPc = [c \in Callers |-> NoRun] /\ exChild = [c \in Callers |-> "none"]
    /\ exLock = "" /\ exOut = [c \in Callers |-> "none"]

\* ServeHTTP has not run
NoUpResp == [status |-> 0, forwarded |-> FALSE, panicked |-> FALSE]

NoUpReq == [header |-> "", hasBucket |-> FALSE, transportOk |-> FALSE, upstreamStatus |-> 0]

upIdle == upKind = "" /\ upCfgs = <<>> /\ upReq = NoUpReq /\ upResp = NoUpResp

\* the service before NewStandalone
NoService == [started |-> FALSE, listening |-> FALSE, loops |-> 0, stopCh |-> FALSE,
              rlLoop |-> FALSE, rlStopCh |-> FALSE]

\* no call has returned
NoCall == [op |-> "none", err |-> "", status |-> 0, inflight |-> FALSE,
           before |-> NoService, after |-> NoService]

lcIdle ==
    /\ lcMode = "" /\ lcRateLimited = FALSE /\ lcSvc = NoService /\ lcPending = 0
    /\ lcPhase = "new" /\ lcLast = NoCall

\* no registry call has returned
NoRegCall == [op |-> "none", name |-> "", known |-> FALSE, parsed |-> "", validated |-> "",
              err |-> "", before |-> <<>>, calls |-> <<>>]

regIdle == regMocks = EmptyEnv /\ regInit = <<>> /\ regLast = NoRegCall

\* no credentials file on disk
NoFile == [state |-> "absent", AccessToken |-> "", RefreshToken |-> "", ExpiresAt |-> 0]

\* no proxy client has been built and no run made
NoBuild == [op |-> "none", file |-> NoFile, at |-> 0, err |-> "", client |-> "none",
            token |-> "", executed |-> FALSE, tokenAt |-> 0]

\* no run command in progress
NoAuthRun == [pc |-> "idle", cached |-> NoFile, at |-> 0, asked |-> 0]

auIdle == auFile = NoFile /\ auNow = 0 /\ auLast = NoBuild /\ auRun = NoAuthRun

\* the run command has not been invoked
NoInvocation == [op |-> "none", code |-> FALSE, file |-> FALSE, fileReadable |-> FALSE,
                 json |-> FALSE, isTerminal |-> FALSE, setup |-> "ok", executed |-> FALSE,
                 execErr |-> FALSE, ExitCode |-> 0, err |-> "", status |-> 0]

xsIdle == xsLast = NoInvocation

\* nothing has been loaded or called
NoTimeoutCall == [op |-> "none", configured |-> 0, given |-> FALSE, asked |-> 0,
                  timeout |-> 0, err |-> ""]

toIdle == toLast = NoTimeoutCall

\* no bucket
NoBucket == [tokens |-> 0, last |-> 0]

\* the run without cleanup has not made the user's bucket yet
NoReference == [made |-> FALSE, tokens |-> 0, last |-> 0]

\* no Allow call has returned
NoDecision == [op |-> "none", allowed |-> FALSE, reference |-> FALSE, full |-> FALSE]

plIdle ==
    /\ plCfg = [Enabled |-> FALSE, RequestsPerMinute |-> 0, BurstSize |-> 0]
    /\ plMap = 0 /\ plBuckets = <<>> /\ plPc = EmptyEnv /\ plHeld = EmptyEnv
    /\ plRef = NoReference /\ plNow = 0 /\ plRaced = FALSE /\ plLast = NoDecision

\* no call to the closed limiter has been answered
NoCloseCall == [op |-> "none", closes |-> 0, allowed |-> FALSE]

clIdle ==
    /\ clRule = [RequestsPerSecond |-> 0, RequestsPerMinute |-> 0, BurstSize |-> 0,
                 BlockDuration |-> 0]
    /\ clStopCh = "open" /\ clLoop = "exited" /\ clMap = 0
    /\ clPc = EmptyEnv /\ clPanic = "" /\ clNow = 0 /\ clSweep = 0 /\ clLast = NoCloseCall
    /\ clEntries = <<>>
    /\ clHeld = EmptyEnv

\* no request has been served
NoAudit == [op |-> "none", Method |-> "", Path |-> <<>>, Datasource |-> ""]

adIdle == adHandlers = {} /\ adLast = NoAudit

\* The variables outside each group, and their idle value.
ipRest == <<envVars, runVars, tokVars, jwtVars, pxVars, rlVars, mwVars, rpVars, jsVars, sessVars, exVars, upVars, lcVars, regVars, auVars, xsVars, toVars, plVars, clVars, adVars, now>>

ipRestIdle == envIdle /\ runIdle /\ tokIdle /\ jwtIdle /\ pxIdle /\ rlIdle /\ mwIdle /\ rpIdle /\ jsIdle /\ sessIdle /\ exIdle /\ upIdle /\ lcIdle /\ regIdle /\ auIdle /\ xsIdle /\ toIdle /\ plIdle /\ clIdle /\ adIdle /\ now = 0

envRest == <<ipVars, runVars, tokVars, jwtVars, pxVars, rlVars, mwVars, rpVars, jsVars, sessVars, exVars, upVars, lcVars, regVars, auVars, xsVars, toVars, plVars, clVars, adVars, now>>

envRestIdle == ipIdle /\ runIdle /\ tokIdle /\ jwtIdle /\ pxIdle /\ rlIdle /\ mwIdle /\ rpIdle /\ jsIdle /\ sessIdle /\ exIdle /\ upIdle /\ lcIdle /\ regIdle /\ auIdle /\ xsIdle /\ toIdle /\ plIdle /\ clIdle /\ adIdle /\ now = 0

runRest == <<ipVars, envVars, tokVars, jwtVars, pxVars, rlVars, mwVars, rpVars, jsVars, sessVars, exVars, upVars, lcVars, regVars, auVars, xsVars, toVars, plVars, clVars, adVars>>

runRestIdle == ipIdle /\ envIdle /\ tokIdle /\ jwtIdle /\ pxIdle /\ rlIdle /\ mwIdle /\ rpIdle /\ jsIdle /\ sessIdle /\ exIdle /\ upIdle /\ lcIdle /\ regIdle /\ auIdle /\ xsIdle /\ toIdle /\ plIdle /\ clIdle /\ adIdle

tokRest == <<ipVars, envVars, runVars, jwtVars, pxVars, rlVars, mwVars, rpVars, jsVars, sessVars, exVars, upVars, lcVars, regVars, auVars, xsVars, toVars, plVars, clVars, adVars>>

tokRestIdle == ipIdle /\ envIdle /\ runIdle /\ jwtIdle /\ pxIdle /\ rlIdle /\ mwIdle /\ rpIdle /\ jsIdle /\ sessIdle /\ exIdle /\ upIdle /\ lcIdle /\ regIdle /\ auIdle /\ xsIdle /\ toIdle /\ plIdle /\ clIdle /\ adIdle

jwtRest == <<ipVars, envVars, runVars, tokVars, pxVars, rlVars, mwVars, rpVars, jsVars, sessVars, exVars, upVars, lcVars, regVars, auVars, xsVars, toVars, plVars, clVars, adVars>>

jwtRestIdle == ipIdle /\ envIdle /\ runIdle /\ tokIdle /\ pxIdle /\ rlIdle /\ mwIdle /\ rpIdle /\ jsIdle /\ sessIdle /\ exIdle /\ upIdle /\ lcIdle /\ regIdle /\ auIdle /\ xsIdle /\ toIdle /\ plIdle /\ clIdle /\ adIdle

pxRest == <<ipVars, envVars, runVars, rlVars, mwVars, rpVars, jsVars, sessVars, exVars, upVars, lcVars, regVars, auVars, xsVars, toVars, plVars, clVars, adVars>>

pxRestIdle == ipIdle /\ envIdle /\ runIdle /\ rlIdle /\ mwIdle /\ rpIdle /\ jsIdle /\ sessIdle /\ exIdle /\ upIdle /\ lcIdle /\ regIdle /\ auIdle /\ xsIdle /\ toIdle /\ plIdle /\ clIdle /\ adIdle

rlRest == <<ipVars, envVars, runVars, tokVars, jwtVars, pxVars, mwVars, rpVars, jsVars, sessVars, exVars, upVars, lcVars, regVars, auVars, xsVars, toVars, plVars, clVars, adVars>>

rlRestIdle == ipIdle /\ envIdle /\ runIdle /\ tokIdle /\ jwtIdle /\ pxIdle /\ mwIdle /\ rpIdle /\ jsIdle /\ sessIdle /\ exIdle /\ upIdle /\ lcIdle /\ regIdle /\ auIdle /\ xsIdle /\ toIdle /\ plIdle /\ clIdle /\ adIdle

mwRest == <<ipVars, envVars, runVars, tokVars, jwtVars, pxVars, rlVars, rpVars, jsVars, sessVars, exVars, upVars, lcVars, regVars, auVars, xsVars, toVars, plVars, clVars, adVars>>

mwRestIdle == ipIdle /\ envIdle /\ runIdle /\ tokIdle /\ jwtIdle /\ pxIdle /\ rlIdle /\ rpIdle /\ jsIdle /\ sessIdle /\ exIdle /\ upIdle /\ lcIdle /\ regIdle /\ auIdle /\ xsIdle /\ toIdle /\ plIdle /\ clIdle /\ adIdle

rpRest == <<ipVars, envVars, runVars, tokVars, jwtVars, pxVars, rlVars, mwVars, jsVars, sessVars, exVars, upVars, lcVars, regVars, auVars, xsVars, toVars, plVars, clVars, adVars>>

rpRestIdle == ipIdle /\ envIdle /\ runIdle /\ tokIdle /\ jwtIdle /\ pxIdle /\ rlIdle /\ mwIdle /\ jsIdle /\ sessIdle /\ exIdle /\ upIdle /\ lcIdle /\ regIdle /\ auIdle /\ xsIdle /\ toIdle /\ plIdle /\ clIdle /\ adIdle

jsRest == <<ipVars, envVars, runVars, tokVars, pxVars, rlVars, mwVars, rpVars, sessVars, exVars, upVars, lcVars, regVars, auVars, xsVars, toVars, plVars, clVars, adVars>>

jsRestIdle == ipIdle /\ envIdle /\ runIdle /\ tokIdle /\ pxIdle /\ rlIdle /\ mwIdle /\ rpIdle /\ sessIdle /\ exIdle /\ upIdle /\ lcIdle /\ regIdle /\ auIdle /\ xsIdle /\ toIdle /\ plIdle /\ clIdle /\ adIdle

sessRest == <<ipVars, envVars, runVars, tokVars, jwtVars, pxVars, rlVars, mwVars, rpVars, jsVars, exVars, upVars, lcVars, regVars, auVars, xsVars, toVars, plVars, clVars, adVars>>

sessRestIdle == ipIdle /\ envIdle /\ runIdle /\ tokIdle /\ jwtIdle /\ pxIdle /\ rlIdle /\ mwIdle /\ rpIdle /\ jsIdle /\ exIdle /\ upIdle /\ lcIdle /\ regIdle /\ auIdle /\ xsIdle /\ toIdle /\ plIdle /\ clIdle /\ adIdle

exRest == <<ipVars, envVars, runVars, tokVars, jwtVars, pxVars, rlVars, mwVars, rpVars, jsVars, sessVars, upVars, lcVars, regVars, auVars, xsVars, toVars, plVars, clVars, adVars, now>>

exRestIdle == ipIdle /\ envIdle /\ runIdle /\ tokIdle /\ jwtIdle /\ pxIdle /\ rlIdle /\ mwIdle /\ rpIdle /\ jsIdle /\ sessIdle /\ upIdle /\ lcIdle /\ regIdle /\ auIdle /\ xsIdle /\ toIdle /\ plIdle /\ clIdle /\ adIdle /\ now = 0

upRest == <<ipVars, envVars, runVars, tokVars, jwtVars, pxVars, rlVars, mwVars, rpVars, jsVars, sessVars, exVars, lcVars, regVars, auVars, xsVars, toVars, plVars, clVars, adVars, now>>

upRestIdle == ipIdle /\ envIdle /\ runIdle /\ tokIdle /\ jwtIdle /\ pxIdle /\ rlIdle /\ mwIdle /\ rpIdle /\ jsIdle /\ sessIdle /\ exIdle /\ lcIdle /\ regIdle /\ auIdle /\ xsIdle /\ toIdle /\ plIdle /\ clIdle /\ adIdle /\ now = 0

lcRest == <<ipVars, envVars, runVars, tokVars, jwtVars, pxVars, rlVars, mwVars, rpVars, jsVars, sessVars, exVars, upVars, regVars, auVars, xsVars, toVars, plVars, clVars, adVars, now>>

lcRestIdle == ipIdle /\ envIdle /\ runIdle /\ tokIdle /\ jwtIdle /\ pxIdle /\ rlIdle /\ mwIdle /\ rpIdle /\ jsIdle /\ sessIdle /\ exIdle /\ upIdle /\ regIdle /\ auIdle /\ xsIdle /\ toIdle /\ plIdle /\ clIdle /\ adIdle /\ now = 0

regRest == <<ipVars, envVars, runVars, tokVars, jwtVars, pxVars, rlVars, mwVars, rpVars, jsVars, sessVars, exVars, upVars, lcVars, auVars, xsVars, toVars, plVars, clVars, adVars, now>>

regRestIdle == ipIdle /\ envIdle /\ runIdle /\ tokIdle /\ jwtIdle /\ pxIdle /\ rlIdle /\ mwIdle /\ rpIdle /\ jsIdle /\ sessIdle /\ exIdle /\ upIdle /\ lcIdle /\ auIdle /\ xsIdle /\ toIdle /\ plIdle /\ clIdle /\ adIdle /\ now = 0

auRest == <<ipVars, envVars, runVars, tokVars, jwtVars, pxVars, rlVars, mwVars, rpVars, jsVars, sessVars, exVars, upVars, lcVars, regVars, xsVars, toVars, plVars, clVars, adVars, now>>

auRestIdle == ipIdle /\ envIdle /\ runIdle /\ tokIdle /\ jwtIdle /\ pxIdle /\ rlIdle /\ mwIdle /\ rpIdle /\ jsIdle /\ sessIdle /\ exIdle /\ upIdle /\ lcIdle /\ regIdle /\ xsIdle /\ toIdle /\ plIdle /\ clIdle /\ adIdle /\ now = 0

xsRest == <<ipVars, envVars, runVars, tokVars, jwtVars, pxVars, rlVars, mwVars, rpVars, jsVars, sessVars, exVars, upVars, lcVars, regVars, auVars, toVars, plVars, clVars, adVars, now>>

xsRestIdle == ipIdle /\ envIdle /\ runIdle /\ tokIdle /\ jwtIdle /\ pxIdle /\ rlIdle /\ mwIdle /\ rpIdle /\ jsIdle /\ sessIdle /\ exIdle /\ upIdle /\ lcIdle /\ regIdle /\ auIdle /\ toIdle /\ plIdle /\ clIdle /\ adIdle /\ now = 0

toRest == <<ipVars, envVars, runVars, tokVars, jwtVars, pxVars, rlVars, mwVars, rpVars, jsVars, sessVars, exVars, upVars, lcVars, regVars, auVars, xsVars, plVars, clVars, adVars, now>>

toRestIdle == ipIdle /\ envIdle /\ runIdle /\ tokIdle /\ jwtIdle /\ pxIdle /\ rlIdle /\ mwIdle /\ rpIdle /\ jsIdle /\ sessIdle /\ exIdle /\ upIdle /\ lcIdle /\ regIdle /\ auIdle /\ xsIdle /\ plIdle /\ clIdle /\ adIdle /\ now = 0

plRest == <<ipVars, envVars, runVars, tokVars, jwtVars, pxVars, rlVars, mwVars, rpVars, jsVars, sessVars, exVars, upVars, lcVars, regVars, auVars, xsVars, toVars, clVars, adVars, now>>

plRestIdle == ipIdle /\ envIdle /\ runIdle /\ tokIdle /\ jwtIdle /\ pxIdle /\ rlIdle /\ mwIdle /\ rpIdle /\ jsIdle /\ sessIdle /\ exIdle /\ upIdle /\ lcIdle /\ regIdle /\ auIdle /\ xsIdle /\ toIdle /\ clIdle /\ adIdle /\ now = 0

clRest == <<ipVars, envVars, runVars, tokVars, jwtVars, pxVars, rlVars, mwVars, rpVars, jsVars, sessVars, exVars, upVars, lcVars, regVars, auVars, xsVars, toVars, plVars, adVars, now>>

clRestIdle == ipIdle /\ envIdle /\ runIdle /\ tokIdle /\ jwtIdle /\ pxIdle /\ rlIdle /\ mwIdle /\ rpIdle /\ jsIdle /\ sessIdle /\ exIdle /\ upIdle /\ lcIdle /\ regIdle /\ auIdle /\ xsIdle /\ toIdle /\ plIdle /\ adIdle /\ now = 0

adRest == <<ipVars, envVars, runVars, tokVars, jwtVars, pxVars, rlVars, mwVars, rpVars, jsVars, sessVars, exVars, upVars, lcVars, regVars, auVars, xsVars, toVars, plVars, clVars, now>>

adRestIdle == ipIdle /\ envIdle /\ runIdle /\ tokIdle /\ jwtIdle /\ pxIdle /\ rlIdle /\ mwIdle /\ rpIdle /\ jsIdle /\ sessIdle /\ exIdle /\ upIdle /\ lcIdle /\ regIdle /\ auIdle /\ xsIdle /\ toIdle /\ plIdle /\ clIdle /\ now = 0

(***************************************************************************)
(* Generic helpers.                                                        *)
(***************************************************************************)
Range(s) == {s[i] : i \in DOMAIN s}

SeqsUpTo(S, n) == UNION {[1..k -> S] : k \in 0..n}

RECURSIVE Pow2(_)
Pow2(n) == IF n = 0 THEN 1 ELSE 2 * Pow2(n - 1)

(***************************************************************************)
(* Texts.  A string that is meant to be an IP address is modelled by what  *)
(* net.ParseIP makes of it: kind "ip" parses to the address addr; alt      *)
(* marks a second spelling of the same address (upper-case or uncompressed *)
(* IPv6 text), which is a different string; kind "junk" does not parse;    *)
(* kind "blank" is the empty string.                                       *)
(***************************************************************************)
Addrs == 0..(Pow2(AddrBits) - 1)

IpText(a, alt) == [kind |-> "ip", addr |-> a, alt |-> alt]
Junk == [kind |-> "junk", addr |-> 0, alt |-> FALSE]
Blank == [kind |-> "blank", addr |-> 0, alt |-> FALSE]

CanonicalIpTexts == {IpText(a, FALSE) : a \in Addrs}
\* the texts that parse: every address in its canonical spelling, and one
\* address in a second spelling as well
IpTexts == CanonicalIpTexts \cup {IpText(0, TRUE)}
\* the first and the last address: the bases of the CIDR entries
LastAddr == Pow2(AddrBits) - 1
CidrBases == {IpText(0, FALSE), IpText(LastAddr, FALSE)}

\* net.ParseIP: the address, or -1 for nil
ParseIP(t) == IF t.kind = "ip" THEN t.addr ELSE -1

(***************************************************************************)
(* A trusted_proxies entry is a text without "/" (slash = FALSE) or a      *)
(* text "base/bits" (slash = TRUE).                                        *)
(***************************************************************************)
ExactEntry(t) == [slash |-> FALSE, base |-> t, bits |-> 0]
CidrEntry(t, b) == [slash |-> TRUE, base |-> t, bits |-> b]

\* net.ParseCIDR fails on a base that is no IP and on a prefix length
\* outside 0..width
ParseCIDROk(e) == e.base.kind = "ip" /\ e.bits \in 0..AddrBits

\* the mask of a prefix length: the network keeps the top bits
NetOf(a, bits) == a \div Pow2(AddrBits - bits)

\* net.IPNet.Contains for the network ParseCIDR returns (base masked)
IPNetContains(e, a) == NetOf(a, e.bits) = NetOf(e.base.addr, e.bits)

ProxyEntries ==
    {ExactEntry(t) : t \in IpTexts \cup {Junk}}
    \cup {CidrEntry(t, b) : t \in CidrBases, b \in 0..(AddrBits + 1)}
    \cup {CidrEntry(Junk, 0)}

(***************************************************************************)
(* RateLimiter.isTrustedProxy                                              *)
(***************************************************************************)
\* a plausible slip: a malformed CIDR entry ends the scan instead of being skipped
RECURSIVE isTrustedProxyFrom_abortOnMalformed(_, _, _)
isTrustedProxyFrom_abortOnMalformed(list, i, ip) ==
    IF i > Len(list) THEN FALSE
    ELSE LET trusted == list[i] IN
         IF trusted.slash
         THEN IF ~ParseCIDROk(trusted)
              THEN FALSE
              ELSE IF IPNetContains(trusted, ParseIP(ip))
                   THEN TRUE
                   ELSE isTrustedProxyFrom_abortOnMalformed(list, i + 1, ip)
         ELSE IF trusted.base = ip
              THEN TRUE
              ELSE isTrustedProxyFrom_abortOnMalformed(list, i + 1, ip)

RECURSIVE isTrustedProxyFrom(_, _, _)
isTrustedProxyFrom(list, i, ip) ==
    IF i > Len(list) THEN FALSE
    ELSE LET trusted == list[i] IN
         IF trusted.slash
         THEN IF ~ParseCIDROk(trusted)
              THEN isTrustedProxyFrom(list, i + 1, ip)      \* continue
              ELSE IF IPNetContains(trusted, ParseIP(ip))
                   THEN TRUE
                   ELSE isTrustedProxyFrom(list, i + 1, ip)
         ELSE IF trusted.base = ip
              THEN TRUE
              ELSE isTrustedProxyFrom(list, i + 1, ip)

isTrustedProxy(list, ip) ==
    IF ParseIP(ip) = -1 THEN FALSE
    ELSE isTrustedProxyFrom(list, 1, ip)

(***************************************************************************)
(* Specification SpecTrusted: isTrustedProxy on every configured list.     *)
(***************************************************************************)
InitTrusted ==
    /\ TrustedProxies \in SeqsUpTo(ProxyEntries, MaxProxies)
    /\ ipOp = "none"
    /\ ipArg \in IpTexts \cup {Junk}
    /\ ipOut = FALSE
    /\ ipRestIdle

CallIsTrustedProxy ==
    /\ ipOp = "none"
    /\ ipOp' = "isTrustedProxy"
    /\ ipOut' = isTrustedProxy(TrustedProxies, ipArg)
    /\ UNCHANGED <<TrustedProxies, ipArg, ipRest>>

NextTrusted == CallIsTrustedProxy

SpecTrusted == InitTrusted /\ [][NextTrusted]_vars

(***************************************************************************)
(* RateLimiter.getClientIP.  A request carries RemoteAddr (host text, with *)
(* or without a ":port"), the X-Forwarded-For header (the entries between  *)
(* its commas, each with or without surrounding blanks; <<>> is the absent *)
(* header) and the X-Real-IP header (one such entry; absent = NoHeader).   *)
(***************************************************************************)
Entry(pad, t) == [pad |-> pad, txt |-> t]
NoHeader == Entry(FALSE, Blank)

\* strings.TrimSpace
TrimSpace(e) == e.txt

\* the header text is the empty string
XffIsEmpty(xff) == xff = <<>> \/ xff = <<NoHeader>>
XriIsEmpty(xri) == xri = NoHeader

\* net.SplitHostPort: an address without port is an error
SplitHostPort(ra) == [err |-> ~ra.port, host |-> ra.host]

\* the mutant of getClientIP: the headers are honoured whoever the peer is
getClientIP_trustAnyPeer(list, r) ==
    LET remoteIP == r.RemoteAddr.host
    IN  IF ~XffIsEmpty(r.xff) /\ TrimSpace(r.xff[1]) # Blank
        THEN TrimSpace(r.xff[1])
        ELSE IF ~XriIsEmpty(r.xri)
             THEN TrimSpace(r.xri)
             ELSE remoteIP

getClientIP(list, r) ==
    LET split == SplitHostPort(r.RemoteAddr)
        \* on error the whole RemoteAddr, which then is the host text alone
        remoteIP == IF split.err THEN r.RemoteAddr.host ELSE split.host
        isTrusted == isTrustedProxy(list, remoteIP)
    IN  IF isTrusted
        THEN IF ~XffIsEmpty(r.xff) /\ TrimSpace(r.xff[1]) # Blank
             THEN TrimSpace(r.xff[1])
             ELSE IF ~XriIsEmpty(r.xri)
                  THEN TrimSpace(r.xri)
                  ELSE remoteIP
        ELSE remoteIP

(***************************************************************************)
(* Specification SpecClientIP: getClientIP on requests from trusted and    *)
(* untrusted peers.                                                        *)
(***************************************************************************)
ClientIPEntries ==
    { ExactEntry(IpText(0, FALSE)),
      CidrEntry(IpText(LastAddr, FALSE), AddrBits - 1),
      CidrEntry(Junk, 0) }

XffEntries ==
    { Entry(FALSE, Blank), Entry(TRUE, Blank),
      Entry(FALSE, IpText(1, FALSE)), Entry(TRUE, IpText(1, FALSE)),
      Entry(FALSE, Junk) }

\* the entries a chain of proxies appends after the first one
ProxyHop == Entry(TRUE, IpText(0, FALSE))

\* the absent header, and every first entry followed by up to MaxXff - 1 hops
XffHeaders ==
    {<<>>} \cup {<<e>> \o [i \in 1..k |-> ProxyHop] : e \in XffEntries, k \in 0..(MaxXff - 1)}

XriHeaders ==
    { NoHeader, Entry(TRUE, Blank),
      Entry(FALSE, IpText(LastAddr, FALSE)), Entry(TRUE, IpText(LastAddr, FALSE)) }

RemoteAddrs == [host : IpTexts \cup {Junk}, port : BOOLEAN]

Requests == [RemoteAddr : RemoteAddrs, xff : XffHeaders, xri : XriHeaders]

InitClientIP ==
    /\ TrustedProxies \in SeqsUpTo(ClientIPEntries, MaxProxies)
    /\ ipOp = "none"
    /\ ipArg \in Requests
    /\ ipOut = FALSE
    /\ ipRestIdle

CallGetClientIP ==
    /\ ipOp = "none"
    /\ ipOp' = "getClientIP"
    /\ ipOut' = getClientIP(TrustedProxies, ipArg)
    /\ UNCHANGED <<TrustedProxies, ipArg, ipRest>>

NextClientIP == CallGetClientIP

SpecClientIP == InitClientIP /\ [][NextClientIP]_vars

(***************************************************************************)
(* C9, C10                                                                 *)
(***************************************************************************)
\* what the claim says the client IP is
ClaimedClientIP(list, r) ==
    IF isTrustedProxy(list, r.RemoteAddr.host)
    THEN IF r.xff # <<>> /\ r.xff[1].txt # Blank
         THEN r.xff[1].txt
         ELSE IF r.xri # NoHeader THEN r.xri.txt ELSE r.RemoteAddr.host
    ELSE r.RemoteAddr.host

\* C9: the client IP of a request from a trusted peer is the first entry of
\* X-Forwarded-For when there is one (a blank first entry counts as none),
\* else X-Real-IP when present, else the peer address; from an untrusted
\* peer it is the peer address, and it stays the same under every other
\* choice of the two headers.
C9_ClientIP ==
    ipOp = "getClientIP" =>
        /\ ipOut = ClaimedClientIP(TrustedProxies, ipArg)
        /\ ~isTrustedProxy(TrustedProxies, ipArg.RemoteAddr.host) =>
              \A h \in XffHeaders, x \in XriHeaders :
                  getClientIP(TrustedProxies, [ipArg EXCEPT !.xff = h, !.xri = x]) = ipOut

\* an untrusted peer sent both headers and the key is its own address
C9_Witness ==
    /\ ipOp = "getClientIP"
    /\ ~isTrustedProxy(TrustedProxies, ipArg.RemoteAddr.host)
    /\ TrustedProxies # <<>>
    /\ ipArg.xff # <<>> /\ ipArg.xff[1].txt.kind = "ip"
    /\ ipArg.xri.txt.kind = "ip"
    /\ ipOut = ipArg.RemoteAddr.host
    /\ ipOut.kind = "ip"

\* membership in the union of the exact entries and the well-formed CIDR
\* entries of the list
InTrustedUnion(list, ip) ==
    \E i \in DOMAIN list :
        \/ ~list[i].slash /\ list[i].base = ip
        \/ list[i].slash /\ ParseCIDROk(list[i]) /\ IPNetContains(list[i], ip.addr)

WellFormedOnly(list) == SelectSeq(list, LAMBDA e : ~e.slash \/ ParseCIDROk(e))

\* C10: for an IP address, isTrustedProxy is membership in the union of the
\* exact entries (compared as text) and the well-formed CIDR entries, and
\* the malformed CIDR entries of the list do not change the result.
C10_TrustedUnion ==
    (ipOp = "isTrustedProxy" /\ ipArg.kind = "ip") =>
        /\ ipOut = InTrustedUnion(TrustedProxies, ipArg)
        /\ ipOut = isTrustedProxy(WellFormedOnly(TrustedProxies), ipArg)

\* a malformed CIDR entry comes first and a later entry decides
C10_Witness ==
    /\ ipOp = "isTrustedProxy"
    /\ ipArg.kind = "ip"
    /\ Len(TrustedProxies) = 2
    /\ TrustedProxies[1].slash /\ ~ParseCIDROk(TrustedProxies[1])
    /\ TrustedProxies[2].slash /\ TrustedProxies[2].bits \in 1..(AddrBits - 1)
    /\ ipOut = TRUE


(***************************************************************************)
(* Sandbox environment builders.                                           *)
(*                                                                         *)
(* A configuration string is an atom: 0 is the empty string, 1..NumStrs    *)
(* are distinct non-empty strings, and the fixed texts of a configuration  *)
(* (names, endpoints) are negative atoms.  An environment value is either  *)
(* a plain string or the JSON text of a list of objects; JsonMarshal keeps *)
(* the objects, so that "the value contains the string" is decidable.      *)
(***************************************************************************)
Strs == 1..NumStrs

PlainValue(a) == [items |-> <<>>, s |-> a]

JsonMarshal(infos) == [items |-> infos, s |-> 0]

\* strings.Contains(value, a) for a non-empty string a
ValueContains(v, a) ==
    \/ v.items = <<>> /\ v.s = a
    \/ \E i \in DOMAIN v.items : \E f \in DOMAIN v.items[i] : v.items[i][f] = a

\* a map literal with one entry
OneEntry(k, v) == [x \in {k} |-> v]

\* writing the entries of b into a: an existing key is overwritten
MergeEnv(a, b) == [k \in DOMAIN a \cup DOMAIN b |-> IF k \in DOMAIN b THEN b[k] ELSE a[k]]

\* ---- plugins/cbt ----
GetUIURL(c) == IF c.UIURL # 0 THEN c.UIURL ELSE c.URL

cbtInstanceInfo(inst) ==
    [name |-> inst.Name, description |-> inst.Description,
     url |-> inst.URL, ui_url |-> GetUIURL(inst)]

cbtSandboxEnv(cfg) ==
    IF Len(cfg.Instances) = 0
    THEN EmptyEnv
    ELSE OneEntry("ETHPANDAOPS_CBT_INSTANCES",
                  JsonMarshal([i \in DOMAIN cfg.Instances |-> cbtInstanceInfo(cfg.Instances[i])]))

\* ---- plugins/clickhouse: the credentialed plugin ----
clickhouseClusterInfo_withUsername(c) ==
    [name |-> c.Name, description |-> c.Description, database |-> c.Username]

clickhouseClusterInfo(c) ==
    [name |-> c.Name, description |-> c.Description, database |-> c.Database]

clickhouseSandboxEnv(cfg) ==
    IF Len(cfg.Clusters) = 0
    THEN EmptyEnv
    ELSE OneEntry("ETHPANDAOPS_CLICKHOUSE_DATASOURCES",
                  JsonMarshal([i \in DOMAIN cfg.Clusters |-> clickhouseClusterInfo(cfg.Clusters[i])]))

PluginSandboxEnv(p) ==
    IF p.name = "cbt" THEN cbtSandboxEnv(p.cfg) ELSE clickhouseSandboxEnv(p.cfg)

\* ---- pkg/plugin: Registry.SandboxEnv over the initialized plugins ----
RECURSIVE RegistrySandboxEnvFrom(_, _, _)
RegistrySandboxEnvFrom(initialized, i, acc) ==
    IF i > Len(initialized)
    THEN acc
    ELSE RegistrySandboxEnvFrom(initialized, i + 1,
                                MergeEnv(acc, PluginSandboxEnv(initialized[i])))

RegistrySandboxEnv(initialized) == RegistrySandboxEnvFrom(initialized, 1, EmptyEnv)


\* ---- pkg/tool: the execute_python tool ----
MinTimeout == 1

MaxTimeout == 300

\* strconv.Itoa: the decimal text of n, an atom of its own
Itoa(n) == 0 - 1000 - n

buildSandboxEnv(cfg) ==
    LET grafana == [k \in {"XATU_GRAFANA_URL", "XATU_GRAFANA_TOKEN", "XATU_HTTP_TIMEOUT"} |->
                       CASE k = "XATU_GRAFANA_URL" -> PlainValue(cfg.Grafana.URL)
                         [] k = "XATU_GRAFANA_TOKEN" -> PlainValue(cfg.Grafana.ServiceToken)
                         [] OTHER -> PlainValue(Itoa(cfg.Grafana.Timeout))]
        s3 == [k \in {"XATU_S3_ENDPOINT", "XATU_S3_ACCESS_KEY", "XATU_S3_SECRET_KEY",
                      "XATU_S3_BUCKET", "XATU_S3_REGION"} |->
                       CASE k = "XATU_S3_ENDPOINT" -> PlainValue(cfg.Storage.Endpoint)
                         [] k = "XATU_S3_ACCESS_KEY" -> PlainValue(cfg.Storage.AccessKey)
                         [] k = "XATU_S3_SECRET_KEY" -> PlainValue(cfg.Storage.SecretKey)
                         [] k = "XATU_S3_BUCKET" -> PlainValue(cfg.Storage.Bucket)
                         [] OTHER -> PlainValue(cfg.Storage.Region)]
        prefix == IF cfg.Storage.PublicURLPrefix # 0
                  THEN OneEntry("XATU_S3_PUBLIC_URL_PREFIX", PlainValue(cfg.Storage.PublicURLPrefix))
                  ELSE EmptyEnv
    IN  IF cfg.Storage.nil
        THEN grafana
        ELSE MergeEnv(MergeEnv(grafana, s3), prefix)

(***************************************************************************)
(* Specification SpecEnv: one builder runs on one input.                   *)
(***************************************************************************)
CbtInstanceConfigs == [Name : {0 - i : i \in 1..MaxInstances}, Description : {0 - 10},
                       URL : Strs, UIURL : {0} \cup Strs]

\* configurations that passed the plugin's Validate: names unique and set, url set
CbtConfigs ==
    {[Instances |-> l] : l \in UNION {{q \in [1..k -> CbtInstanceConfigs] :
                                          \A i \in 1..k : q[i].Name = 0 - i} : k \in 1..MaxInstances}}

ClickhouseClusterConfigs == [Name : {0 - i : i \in 1..MaxInstances}, Description : {0 - 11},
                             Database : Strs, Username : Strs, Password : Strs]

ClickhouseConfigs ==
    {[Clusters |-> l] : l \in UNION {{q \in [1..k -> ClickhouseClusterConfigs] :
                                         \A i \in 1..k : q[i].Name = 0 - i} : k \in 0..MaxInstances}}

CbtPlugins == {[name |-> "cbt", cfg |-> c] : c \in CbtConfigs}

ClickhousePlugins == {[name |-> "clickhouse", cfg |-> c] : c \in ClickhouseConfigs}

\* the initialized slice: each plugin at most once, in either order
InitializedSlice(cbt, clickhouse, cbtFirst) ==
    IF cbtFirst THEN cbt \o clickhouse ELSE clickhouse \o cbt

NilStorage == [nil |-> TRUE, Endpoint |-> 0, AccessKey |-> 0, SecretKey |-> 0,
               Bucket |-> 0, Region |-> 0, PublicURLPrefix |-> 0]

StorageConfigs == [nil : {FALSE}, Endpoint : {0 - 20}, AccessKey : Strs, SecretKey : Strs,
                   Bucket : {0 - 21}, Region : {0 - 22}, PublicURLPrefix : {0, 0 - 23}]

GrafanaConfigs == [URL : {0 - 24}, ServiceToken : Strs, Timeout : {30}]

ToolConfigs == [Grafana : GrafanaConfigs, Storage : {NilStorage} \cup StorageConfigs]

ToolRequests == [code : {0, 0 - 25},
                 timeout : {MinTimeout - 1, MinTimeout, MaxTimeout, MaxTimeout + 1}]

RegistryArg(l) == [kind |-> "registry", initialized |-> l]

ToolArgs == {[kind |-> "tool", cfg |-> c, request |-> r] : c \in ToolConfigs, r \in ToolRequests}

InitEnv ==
    /\ envOp = "none"
    /\ \/ envArg \in ToolArgs
       \/ \E cbt \in {<<>>} \cup {<<p>> : p \in CbtPlugins} :
          \E clickhouse \in {<<>>} \cup {<<p>> : p \in ClickhousePlugins} :
          \E cbtFirst \in BOOLEAN :
              envArg = RegistryArg(InitializedSlice(cbt, clickhouse, cbtFirst))
    /\ envOut = EmptyEnv
    /\ envRestIdle

\* the bootstrap asks the registry for the plugins' environment
CallRegistrySandboxEnv ==
    /\ envOp = "none"
    /\ envArg.kind = "registry"
    /\ envOp' = "registry"
    /\ envOut' = RegistrySandboxEnv(envArg.initialized)
    /\ UNCHANGED <<envArg, envRest>>

\* the execute_python handler up to its call of sandboxSvc.Execute;
\* envOut is the Env of the ExecuteRequest
ExecutePython ==
    /\ envOp = "none"
    /\ envArg.kind = "tool"
    /\ IF \/ envArg.request.code = 0
          \/ envArg.request.timeout < MinTimeout
          \/ envArg.request.timeout > MaxTimeout
       THEN envOp' = "rejected" /\ envOut' = EmptyEnv
       ELSE envOp' = "execute_python" /\ envOut' = buildSandboxEnv(envArg.cfg)
    /\ UNCHANGED <<envArg, envRest>>

NextEnv == CallRegistrySandboxEnv \/ ExecutePython

SpecEnv == InitEnv /\ [][NextEnv]_vars

\* ---- what the claims speak about ----
\* the values of a plugin's credential fields
PluginCredentials(p) ==
    IF p.name = "clickhouse"
    THEN UNION {{p.cfg.Clusters[i].Username, p.cfg.Clusters[i].Password} : i \in DOMAIN p.cfg.Clusters}
    ELSE {}

\* the values of its other fields
PluginMetadata(p) ==
    IF p.name = "clickhouse"
    THEN UNION {{p.cfg.Clusters[i].Name, p.cfg.Clusters[i].Description,
                 p.cfg.Clusters[i].Database} : i \in DOMAIN p.cfg.Clusters}
    ELSE UNION {{p.cfg.Instances[i].Name, p.cfg.Instances[i].Description,
                 p.cfg.Instances[i].URL, p.cfg.Instances[i].UIURL} : i \in DOMAIN p.cfg.Instances}

AllCredentials(initialized) == UNION {PluginCredentials(initialized[i]) : i \in DOMAIN initialized}

AllMetadata(initialized) == UNION {PluginMetadata(initialized[i]) : i \in DOMAIN initialized}

\* the same plugins with every credential field overwritten by one fixed text
ScrubPlugin(p) ==
    IF p.name = "clickhouse"
    THEN [p EXCEPT !.cfg.Clusters = [i \in DOMAIN p.cfg.Clusters |->
              [p.cfg.Clusters[i] EXCEPT !.Username = 0 - 30, !.Password = 0 - 30]]]
    ELSE p

Scrub(initialized) == [i \in DOMAIN initialized |-> ScrubPlugin(initialized[i])]

\* C1: whatever plugins are initialized and however they are configured, the
\* map returned by the registry's SandboxEnv() does not depend on any
\* credential field (it equals the map of the same plugins with the
\* credentials overwritten), and when the credential values are not also
\* used as metadata (the golden test's input) no value of the map contains one.
C1_NoCredentialInRegistryEnv ==
    envOp = "registry" =>
        /\ envOut = RegistrySandboxEnv(Scrub(envArg.initialized))
        /\ AllCredentials(envArg.initialized) \cap AllMetadata(envArg.initialized) = {}
              => \A k \in DOMAIN envOut : \A c \in AllCredentials(envArg.initialized) :
                     ~ValueContains(envOut[k], c)

C1_Witness ==
    /\ envOp = "registry"
    /\ Len(envArg.initialized) = 2
    /\ AllCredentials(envArg.initialized) # {}
    /\ AllCredentials(envArg.initialized) \cap AllMetadata(envArg.initialized) = {}
    /\ DOMAIN envOut = {"ETHPANDAOPS_CBT_INSTANCES", "ETHPANDAOPS_CLICKHOUSE_DATASOURCES"}

\* the datasource credentials of the tool's configuration
ToolCredentials(cfg) ==
    {cfg.Grafana.ServiceToken}
        \cup (IF cfg.Storage.nil THEN {} ELSE {cfg.Storage.AccessKey, cfg.Storage.SecretKey})

\* C2: the environment map handed to the sandbox for an execution contains no
\* datasource credential (service token, access key, secret key, password).
C2_NoCredentialInSandboxEnv ==
    envOp = "execute_python" =>
        \A k \in DOMAIN envOut : \A c \in ToolCredentials(envArg.cfg) :
            ~ValueContains(envOut[k], c)


(***************************************************************************)
(* The run command (cmd.runRun) over the remote proxy service              *)
(* (proxy.remoteService), the implementation of proxy.Service the          *)
(* repository holds.  runRun blocks in sandboxSvc.Execute: RunBegin is the *)
(* command up to that call, RunFinish the rest.                            *)
(***************************************************************************)
\* the user's JWT in the local credential store
UserJWT == 0 - 40

\* what surrounds one invocation: the flags, the terminal, the credential store
RunArgs == [code : BOOLEAN, file : BOOLEAN, fileReadable : BOOLEAN, json : BOOLEAN,
            setupFails : BOOLEAN, isAuthenticated : BOOLEAN, accessToken : {0, UserJWT}, jwtExp : 1..MaxTime]

\* remoteService.RegisterToken: the execution id is not used; the user's JWT,
\* or "" when the credential store fails
RegisterToken(args, id) == args.accessToken

\* remoteService.RevokeToken: a no-op; the proxy rejects what it rejected before
RevokeToken(rejected, id) == rejected

\* the tokens the remote proxy accepts at time t: the user's JWT until it expires
AcceptedTokens(args, rejected, t) == (IF t < args.jwtExp THEN {UserJWT} ELSE {}) \ rejected

\* whether runRun returns before it reaches the token registration
FailsEarly(args) ==
    \/ ~args.code /\ ~args.file
    \/ args.code /\ args.file
    \/ args.file /\ ~args.fileReadable
    \/ ~args.isAuthenticated
    \/ args.setupFails

RunBegin ==
    /\ runPc = "idle"
    /\ runCount < MaxRuns
    /\ \E args \in RunArgs :
        /\ runArgs' = args
        /\ runCount' = runCount + 1
        /\ IF FailsEarly(args)
           THEN /\ runPc' = "returned"
                /\ executionID' = 0
                /\ proxyToken' = 0
                /\ UNCHANGED registered
           ELSE /\ runPc' = "executing"
                /\ executionID' = runCount + 1
                /\ proxyToken' = RegisterToken(args, runCount + 1)
                /\ registered' = registered \cup {runCount + 1}
    /\ UNCHANGED <<revoked, rejectedTokens, now, runRest>>

\* sandboxSvc.Execute returns: an error, or a result with the child's exit code
RunFinish ==
    /\ runPc = "executing"
    /\ \E err \in BOOLEAN, ExitCode \in {0, 3}, isTerminal \in BOOLEAN :
        IF err \/ runArgs.json \/ ~isTerminal \/ ExitCode = 0
        THEN \* return: the deferred RevokeToken runs
             /\ runPc' = "returned"
             /\ revoked' = revoked \cup {executionID}
             /\ rejectedTokens' = RevokeToken(rejectedTokens, executionID)
        ELSE \* os.Exit(result.ExitCode): deferred calls do not run
             /\ runPc' = "exited"
             /\ UNCHANGED <<revoked, rejectedTokens>>
    /\ UNCHANGED <<runArgs, runCount, executionID, proxyToken, registered, now, runRest>>

\* the next invocation of the command
RunAgain ==
    /\ runPc \in {"returned", "exited"}
    /\ runCount < MaxRuns
    /\ runPc' = "idle"
    /\ executionID' = 0
    /\ proxyToken' = 0
    /\ UNCHANGED <<runArgs, runCount, registered, revoked, rejectedTokens, now, runRest>>

Tick ==
    /\ now < MaxTime
    /\ now' = now + 1

RunTick == Tick /\ UNCHANGED <<runVars, runRest>>

InitRun == runIdle /\ now = 0 /\ runRestIdle

NextRun == RunBegin \/ RunFinish \/ RunAgain \/ RunTick

SpecRun == InitRun /\ [][NextRun]_vars

\* C3: for every sandbox run a token is registered for a fresh execution id
\* before the code executes and is placed in the sandbox environment, and once
\* the run has ended (returned or exited, whatever the outcome) RevokeToken
\* has been called for its execution id and the token placed in the
\* environment is no longer accepted by the proxy.
C3_TokenRevokedOnCompletion ==
    /\ runPc = "executing" =>
          /\ executionID \in registered
          /\ executionID \notin revoked
    /\ (runPc \in {"returned", "exited"} /\ executionID # 0) =>
          /\ executionID \in revoked
          /\ proxyToken \notin AcceptedTokens(runArgs, rejectedTokens, now)


(***************************************************************************)
(* The token store (pkg/proxy TokenStore).  A token is the number of its   *)
(* generation, so no two Register calls return the same token; 0 is the    *)
(* empty result of Validate.                                               *)
(***************************************************************************)
ExecutionIDs == 1..NumExecutions

TokenValues == 1..MaxTokens

\* Register: insert token -> (executionId, expiry = now + TTL)
StoreRegister(store, t, e, at) ==
    [x \in DOMAIN store \cup {t} |->
        IF x = t THEN [executionID |-> e, expiry |-> at + TokenTTL] ELSE store[x]]

StoreValidate_expiryInclusive(store, t, at) ==
    IF t \in DOMAIN store /\ at <= store[t].expiry THEN store[t].executionID ELSE 0

\* Validate: the bound id iff present and not expired
StoreValidate(store, t, at) ==
    IF t \in DOMAIN store /\ at < store[t].expiry THEN store[t].executionID ELSE 0

\* an expired entry found by the lookup is deleted
StoreAfterValidate(store, t, at) ==
    IF t \in DOMAIN store /\ ~(at < store[t].expiry)
    THEN [x \in DOMAIN store \ {t} |-> store[x]]
    ELSE store

\* Revoke by execution id: delete immediately; unknown ids change nothing
StoreRevoke(store, e) ==
    [x \in {y \in DOMAIN store : store[y].executionID # e} |-> store[x]]

\* Revoke by token value
StoreRevokeToken(store, t) == [x \in DOMAIN store \ {t} |-> store[x]]

\* the expiry sweep
StoreSweep(store, at) == [x \in {y \in DOMAIN store : at < store[y].expiry} |-> store[x]]

Register ==
    /\ generated < MaxTokens
    /\ \E e \in ExecutionIDs :
        /\ tokens' = StoreRegister(tokens, generated + 1, e, now)
        /\ issued' = [x \in DOMAIN issued \cup {generated + 1} |->
                         IF x = generated + 1
                         THEN [executionID |-> e, expiry |-> now + TokenTTL, revoked |-> FALSE]
                         ELSE issued[x]]
    /\ generated' = generated + 1
    /\ tokOp' = NoValidate
    /\ UNCHANGED <<now, tokRest>>

Validate ==
    /\ \E t \in TokenValues :
        /\ tokOp' = [op |-> "Validate", token |-> t, at |-> now, out |-> StoreValidate(tokens, t, now)]
        /\ tokens' = StoreAfterValidate(tokens, t, now)
    /\ UNCHANGED <<generated, issued, now, tokRest>>

Revoke ==
    /\ \E e \in ExecutionIDs :
        /\ tokens' = StoreRevoke(tokens, e)
        /\ issued' = [x \in DOMAIN issued |->
                         IF issued[x].executionID = e
                         THEN [issued[x] EXCEPT !.revoked = TRUE] ELSE issued[x]]
    /\ tokOp' = NoValidate
    /\ UNCHANGED <<generated, now, tokRest>>

RevokeByToken ==
    /\ \E t \in TokenValues :
        /\ tokens' = StoreRevokeToken(tokens, t)
        /\ issued' = [x \in DOMAIN issued |->
                         IF x = t THEN [issued[x] EXCEPT !.revoked = TRUE] ELSE issued[x]]
    /\ tokOp' = NoValidate
    /\ UNCHANGED <<generated, now, tokRest>>

Sweep ==
    /\ tokens' = StoreSweep(tokens, now)
    /\ UNCHANGED <<generated, issued, tokOp, now, tokRest>>

TokTick == Tick /\ UNCHANGED <<tokVars, tokRest>>

InitTok == tokIdle /\ now = 0 /\ tokRestIdle

NextTok == Register \/ Validate \/ Revoke \/ RevokeByToken \/ Sweep \/ TokTick

SpecTok == InitTok /\ [][NextTok]_vars

\* C4: after any sequence of Register, Validate, Revoke, sweeps and passage of
\* time, Validate(t) returns the execution id e that Register(e) bound to t if
\* and only if t was returned by a Register, has not been revoked and has not
\* expired; in every other case it returns the empty result.
C4_ValidateIffLive ==
    tokOp.op = "Validate" =>
        tokOp.out =
            IF /\ tokOp.token \in DOMAIN issued
               /\ ~issued[tokOp.token].revoked
               /\ tokOp.at < issued[tokOp.token].expiry
            THEN issued[tokOp.token].executionID
            ELSE 0

\* a registered token that was revoked before its expiry validates to nothing,
\* while another token is still in the store
C4_Witness ==
    /\ tokOp.op = "Validate"
    /\ tokOp.token \in DOMAIN issued
    /\ issued[tokOp.token].revoked
    /\ tokOp.at < issued[tokOp.token].expiry
    /\ tokOp.out = 0
    /\ \E t \in DOMAIN tokens : t # tokOp.token


(***************************************************************************)
(* The JWT validator (pkg/proxy jwtValidator).                             *)
(*                                                                         *)
(* A token is what its three parts decode to: the header's alg and kid (0  *)
(* when the header has none), the claims, and the private key that made    *)
(* the signature (signer k is the key pair published under kid k; 0 is a   *)
(* signature no published key verifies).  exp and nbf are ticks, 0 when    *)
(* the claim is absent.                                                    *)
(***************************************************************************)
Kids == 1..NumKids

\* rsa verification of the signature under the public key published as kid
SignatureVerifies(tok, kid) == tok.signer = kid

\* jwtValidator.keyFunc
keyFunc(known, tok) ==
    IF tok.kid = 0 THEN [ok |-> FALSE, err |-> "missing kid in token header"]
    ELSE IF tok.kid \notin known THEN [ok |-> FALSE, err |-> "key not found for kid"]
    ELSE [ok |-> TRUE, err |-> "none"]

\* jwt.Parse(tokenString, v.keyFunc, jwt.WithValidMethods({"RS256"})): the
\* method, the key, the signature, then the registered claims exp and nbf
jwtParse(known, tok, t) ==
    IF tok.alg # "RS256" THEN [ok |-> FALSE, err |-> "signing method is invalid"]
    ELSE IF ~keyFunc(known, tok).ok THEN keyFunc(known, tok)
    ELSE IF ~SignatureVerifies(tok, tok.kid) THEN [ok |-> FALSE, err |-> "signature is invalid"]
    ELSE IF tok.exp # 0 /\ ~(t < tok.exp) THEN [ok |-> FALSE, err |-> "token is expired"]
    ELSE IF tok.nbf # 0 /\ t < tok.nbf THEN [ok |-> FALSE, err |-> "token is not valid yet"]
    ELSE [ok |-> TRUE, err |-> "none"]

containsAudience(audiences, expected) == expected \in Range(audiences)

hasAllowedOrg(groups, allowedOrgs) == \E org \in allowedOrgs : org \in groups

jwtValidate_audienceUnchecked(cfg, known, tok, t) ==
    IF ~jwtParse(known, tok, t).ok THEN jwtParse(known, tok, t)
    ELSE IF cfg.Issuer # "" /\ tok.iss # cfg.Issuer THEN [ok |-> FALSE, err |-> "invalid issuer"]
    ELSE IF cfg.AllowedOrgs # {} /\ ~hasAllowedOrg(tok.groups, cfg.AllowedOrgs)
    THEN [ok |-> FALSE, err |-> "user not in allowed organizations"]
    ELSE [ok |-> TRUE, err |-> "none"]

\* jwtValidator.Validate
jwtValidate(cfg, known, tok, t) ==
    IF ~jwtParse(known, tok, t).ok THEN jwtParse(known, tok, t)
    ELSE IF cfg.Issuer # "" /\ tok.iss # cfg.Issuer THEN [ok |-> FALSE, err |-> "invalid issuer"]
    ELSE IF cfg.Audience # "" /\ ~containsAudience(tok.aud, cfg.Audience)
    THEN [ok |-> FALSE, err |-> "invalid audience"]
    ELSE IF cfg.AllowedOrgs # {} /\ ~hasAllowedOrg(tok.groups, cfg.AllowedOrgs)
    THEN [ok |-> FALSE, err |-> "user not in allowed organizations"]
    ELSE [ok |-> TRUE, err |-> "none"]

\* the keys of a JWKS document: kid k as a signing RSA key, and the first kid
\* also as an encryption key and as an EC key; Decodable tells whether n and e
\* are base64url text
JwkKeys == [Kid : Kids, Kty : {"RSA"}, Use : {"sig"}, Decodable : {TRUE}]
               \cup {[Kid |-> 1, Kty |-> "RSA", Use |-> "enc", Decodable |-> TRUE],
                     [Kid |-> 1, Kty |-> "EC", Use |-> "sig", Decodable |-> TRUE]}

\* parseRSAPublicKey succeeds
parseRSAPublicKey(key) == key.Decodable

newKeys_keepsEncryptionKeys(jwks) ==
    {key.Kid : key \in {k \in jwks : k.Kty = "RSA" /\ parseRSAPublicKey(k)}}

\* refreshJWKS: the new map of a fetched document
newKeys(jwks) ==
    {key.Kid : key \in {k \in jwks : k.Kty = "RSA" /\ k.Use = "sig" /\ parseRSAPublicKey(k)}}

Tokens == [alg : {"RS256", "HS256"}, kid : {0} \cup Kids, signer : {0} \cup Kids,
           iss : {"https://idp", "https://evil"},
           aud : {<<>>, <<"mcp">>, <<"other", "mcp">>},
           groups : {{}, {"other"}, {"ethpandaops", "other"}},
           exp : {0, 2}, nbf : {0, 1}]

\* the good token of the identity provider
GoodJWT == [alg |-> "RS256", kid |-> 1, signer |-> 1, iss |-> "https://idp",
            aud |-> <<"other", "mcp">>, groups |-> {"ethpandaops", "other"}, exp |-> 2, nbf |-> 0]

\* the tokens presented to Validate: the good token with up to two of its
\* fields changed
ValidateTokens ==
    {tok \in Tokens : Cardinality({f \in DOMAIN GoodJWT : tok[f] # GoodJWT[f]}) <= 2}

\* the key maps a fetched document can leave
FetchedMaps == {newKeys(jwks) : jwks \in SUBSET JwkKeys}

JWTConfigs == [Issuer : {"", "https://idp"}, Audience : {"", "mcp"},
               AllowedOrgs : {{}, {"ethpandaops"}}]

\* NewJWTValidator and Start: the first fetch has succeeded
InitJWT ==
    /\ jwtCfg \in JWTConfigs
    /\ keys \in FetchedMaps
    /\ jwtArg = NoJWT
    /\ jwtOut = NoResult
    /\ now = 0
    /\ jwtRestIdle

\* one round of refreshLoop: a failed fetch leaves the map, a fetched document
\* replaces it, under v.mu, which a Validate in flight does not hold
RefreshJWKS ==
    /\ \E fetched \in BOOLEAN, fetchedKeys \in FetchedMaps :
        keys' = IF fetched THEN fetchedKeys ELSE keys
    /\ UNCHANGED <<jwtCfg, jwtArg, jwtOut, now, jwtRest>>

\* a caller validates a token; keyFunc reads the map once, under its read
\* lock, and the call goes on with the entry v.keys[kid] it found
ValidateJWT ==
    /\ jwtArg = NoJWT
    /\ \E tok \in ValidateTokens :
        /\ jwtArg' = [alg |-> tok.alg, kid |-> tok.kid, signer |-> tok.signer, iss |-> tok.iss,
                      aud |-> tok.aud, groups |-> tok.groups, exp |-> tok.exp, nbf |-> tok.nbf,
                      at |-> now, known |-> keys \cap {tok.kid}]
        /\ jwtOut' = jwtValidate(jwtCfg, keys, tok, now)
    /\ UNCHANGED <<jwtCfg, keys, now, jwtRest>>

\* the caller has taken the result
ReturnJWT ==
    /\ jwtArg # NoJWT
    /\ jwtArg' = NoJWT
    /\ jwtOut' = NoResult
    /\ UNCHANGED <<jwtCfg, keys, now, jwtRest>>

JWTTick == Tick /\ UNCHANGED <<jwtVars, jwtRest>>

NextJWT == RefreshJWKS \/ ValidateJWT \/ ReturnJWT \/ JWTTick

SpecJWT == InitJWT /\ [][NextJWT]_vars


\* ---- what the claim speaks about ----
SignatureUnderKnownKid(tok, known) ==
    tok.alg = "RS256" /\ tok.kid \in known /\ SignatureVerifies(tok, tok.kid)

IssuerMatches(tok, cfg) == cfg.Issuer # "" => tok.iss = cfg.Issuer

GroupsAllowed(tok, cfg) == cfg.AllowedOrgs # {} => tok.groups \cap cfg.AllowedOrgs # {}

NotExpired(tok) == tok.exp = 0 \/ tok.at < tok.exp

AlreadyValid(tok) == tok.nbf = 0 \/ tok.at >= tok.nbf

\* C5, as stated: Validate accepts a JWT if and only if its RS256 signature
\* verifies under a key whose kid is in the JWKS map (as keyFunc read it: a
\* refresh may have replaced the map before Validate returns), its iss equals the
\* configured issuer (when one is configured), the configured audience is a
\* member of its audience sequence, and its groups intersect allowed_orgs
\* (when configured).
C5_AcceptIffListedChecks ==
    jwtArg # NoJWT =>
        (jwtOut.ok <=> /\ SignatureUnderKnownKid(jwtArg, jwtArg.known)
                       /\ IssuerMatches(jwtArg, jwtCfg)
                       /\ jwtCfg.Audience \in {jwtArg.aud[i] : i \in DOMAIN jwtArg.aud}
                       /\ GroupsAllowed(jwtArg, jwtCfg))

\* C5, amended: Validate accepts a JWT if and only if its RS256 signature
\* verifies under a key whose kid is in the JWKS map when keyFunc reads it,
\* the token is within its
\* validity period (now < exp and now >= nbf, for the claims it carries), its
\* iss equals the configured issuer (when configured), the configured audience
\* is in its audience sequence (when an audience is configured), and its
\* groups intersect allowed_orgs (when configured).
C5_AcceptIffAllChecks ==
    jwtArg # NoJWT =>
        (jwtOut.ok <=> /\ SignatureUnderKnownKid(jwtArg, jwtArg.known)
                       /\ NotExpired(jwtArg)
                       /\ AlreadyValid(jwtArg)
                       /\ IssuerMatches(jwtArg, jwtCfg)
                       /\ (jwtCfg.Audience # "" =>
                              jwtCfg.Audience \in {jwtArg.aud[i] : i \in DOMAIN jwtArg.aud})
                       /\ GroupsAllowed(jwtArg, jwtCfg))

\* a token with a good signature, issuer, audience and group under a full
\* configuration is rejected because it has expired
C5_Witness ==
    /\ jwtArg # NoJWT
    /\ jwtCfg = [Issuer |-> "https://idp", Audience |-> "mcp", AllowedOrgs |-> {"ethpandaops"}]
    /\ SignatureUnderKnownKid(jwtArg, jwtArg.known)
    /\ jwtArg.iss = "https://idp"
    /\ jwtArg.aud = <<"other", "mcp">>
    /\ jwtArg.groups = {"ethpandaops", "other"}
    /\ jwtArg.exp # 0 /\ jwtArg.at >= jwtArg.exp
    /\ ~jwtOut.ok

\* a call accepted a token under a key that a refresh has removed from the
\* map before the call returned
AcceptedUnderReplacedKey ==
    /\ jwtArg # NoJWT
    /\ jwtOut.ok
    /\ jwtArg.kid \in jwtArg.known
    /\ jwtArg.kid \notin keys


(***************************************************************************)
(* The standalone proxy (pkg/proxy): the authenticators, the per-user rate *)
(* limiter, the auditor and the middleware chain of the per-kind routes.   *)
(* One request is followed through the chain, one layer per step.  In this *)
(* specification a tick of the clock is one minute.                        *)
(***************************************************************************)
\* the chain as the list of its layers, outermost first
buildMiddlewareChain_rateLimitOutermost(cfg) ==
    LET h0 == <<"handler">>
        h1 == IF cfg.Audit.Enabled THEN <<"audit">> \o h0 ELSE h0
        h2 == <<"auth">> \o h1
        h3 == IF cfg.RateLimiting.Enabled THEN <<"ratelimit">> \o h2 ELSE h2
    IN  h3

buildMiddlewareChain(cfg) ==
    LET h0 == <<"handler">>
        h1 == IF cfg.Audit.Enabled THEN <<"audit">> \o h0 ELSE h0
        h2 == IF cfg.RateLimiting.Enabled THEN <<"ratelimit">> \o h1 ELSE h1
        h3 == <<"auth">> \o h2
    IN  h3

Unauthorized(body) == [status |-> 401, body |-> body, headers |-> EmptyEnv]

\* tokenAuthenticator.Middleware: the response of a rejection, or the user id
tokenAuthenticate(store, r, t) ==
    IF r.Authorization = ""
    THEN [ok |-> FALSE, resp |-> Unauthorized("missing Authorization header"), user |-> 0]
    ELSE IF r.Authorization # "Bearer"
    THEN [ok |-> FALSE, resp |-> Unauthorized("invalid Authorization header format"), user |-> 0]
    ELSE IF StoreValidate(store, r.token, t) = 0
    THEN [ok |-> FALSE, resp |-> Unauthorized("invalid or expired token"), user |-> 0]
    ELSE [ok |-> TRUE, resp |-> NoResponse, user |-> StoreValidate(store, r.token, t)]

\* jwtAuthenticator.Middleware
jwtAuthenticate(cfg, known, r, t) ==
    IF r.Authorization = ""
    THEN [ok |-> FALSE, resp |-> Unauthorized("missing Authorization header"), user |-> 0]
    ELSE IF r.Authorization # "Bearer"
    THEN [ok |-> FALSE, resp |-> Unauthorized("invalid Authorization header format"), user |-> 0]
    ELSE IF ~jwtValidate(cfg, known, r.jwt, t).ok
    THEN [ok |-> FALSE, resp |-> Unauthorized("invalid or expired token"), user |-> 0]
    ELSE [ok |-> TRUE, resp |-> NoResponse, user |-> r.sub]

Min(a, b) == IF a < b THEN a ELSE b

\* RateLimiter.Middleware refusing a request
rateLimitExceeded ==
    [status |-> 429, body |-> "rate limit exceeded", headers |-> ("Retry-After" :> "60")]

\* rate.Limiter.Tokens(): the bucket refilled up to time t
LimiterTokens(cfg, lim, t) ==
    Min(cfg.BurstSize, lim.tokens + (t - lim.last) * cfg.RequestsPerMinute)

\* RateLimiter.getLimiter: the user's bucket, a full one when there is none
getLimiter(cfg, lims, user, t) ==
    IF user \in DOMAIN lims THEN lims[user] ELSE [tokens |-> cfg.BurstSize, last |-> t]

\* rate.Limiter.Allow
LimiterAllow(cfg, lim, t) == LimiterTokens(cfg, lim, t) >= 1

LimiterAfterAllow(cfg, lim, t) ==
    IF LimiterAllow(cfg, lim, t)
    THEN [tokens |-> LimiterTokens(cfg, lim, t) - 1, last |-> t]
    ELSE lim

\* RateLimiter.cleanup: buckets back at full burst are removed
LimitersAfterCleanup(cfg, lims, t) ==
    [u \in {x \in DOMAIN lims : ~(LimiterTokens(cfg, lims[x], t) >= cfg.BurstSize)} |-> lims[u]]

\* the one-field variations of the good token
ProxyJWTs ==
    {tok \in Tokens : Cardinality({f \in DOMAIN GoodJWT : tok[f] # GoodJWT[f]}) <= 1}

ProxyRequests(mode) ==
    {[NoRequest EXCEPT !.Authorization = a] : a \in {"", "Basic"}}
        \cup (IF mode = "token"
              THEN {[NoRequest EXCEPT !.Authorization = "Bearer", !.token = t] : t \in TokenValues}
              ELSE {[NoRequest EXCEPT !.Authorization = "Bearer", !.jwt = j, !.sub = u] :
                        j \in ProxyJWTs, u \in {0, 7}})

ProxyConfigs ==
    [Mode : {"token", "jwt"},
     RateLimiting : {NoProxyConfig.RateLimiting,
                     [Enabled |-> TRUE, RequestsPerMinute |-> 1, BurstSize |-> 2]},
     Audit : [Enabled : BOOLEAN]]

\* the token store after the MCP server has registered nothing, a token for
\* execution 1, or tokens for executions 1 and 2 (a revoked token is a token
\* the store does not hold)
ProxyStores ==
    {EmptyEnv, StoreRegister(EmptyEnv, 1, 1, 0),
     StoreRegister(StoreRegister(EmptyEnv, 1, 1, 0), 2, 2, 0)}

chain == buildMiddlewareChain(proxyCfg)

(***************************************************************************)
(* The upstream handlers of the proxy.  The CBT handler is translated from *)
(* its code; the ClickHouse, Prometheus, Loki and S3 handlers, whose code  *)
(* is not among the sources, from what their tests assert and, where the   *)
(* tests are silent, from the error policy of the specification.           *)
(***************************************************************************)
\* most configs a handler is built from
MaxTargets == 2

DatasourceNames == {"ds1", "ds2"}

\* a name no config has
UnknownName == "other"

\* the statuses an upstream answers with
UpstreamStatuses == {200, 404}

\* a config: its name, and whether url.Parse accepts its URL
TargetConfigs == [Name : DatasourceNames, UrlParses : BOOLEAN]

\* createInstance of the CBT handler: on a parse error an instance without
\* a reverse proxy
cbtCreateInstance(cfg) == [isNil |-> FALSE, proxy |-> cfg.UrlParses]

\* createInstance of the ClickHouse, Prometheus and Loki handlers: on a parse
\* error nil
promCreateInstance(cfg) == [isNil |-> ~cfg.UrlParses, proxy |-> cfg.UrlParses]

\* the last config of the name: the constructor's loop overwrites
LastConfig(cfgs, name) ==
    cfgs[CHOOSE i \in DOMAIN cfgs :
            cfgs[i].Name = name /\ \A j \in DOMAIN cfgs : cfgs[j].Name = name => j <= i]

\* NewCBTHandler, NewClickHouseHandler, NewPrometheusHandler, NewLokiHandler:
\* the instances map
NewHandler(kind, cfgs) ==
    [name \in {cfgs[i].Name : i \in DOMAIN cfgs} |->
        IF kind = "cbt" THEN cbtCreateInstance(LastConfig(cfgs, name))
        ELSE promCreateInstance(LastConfig(cfgs, name))]

\* the reverse proxy's ServeHTTP: the upstream's answer, or the error
\* handler's 502 when the round trip fails
proxyServeHTTP(r) ==
    IF r.transportOk THEN [status |-> r.upstreamStatus, forwarded |-> TRUE, panicked |-> FALSE]
    ELSE [status |-> 502, forwarded |-> TRUE, panicked |-> FALSE]

upError(status) == [status |-> status, forwarded |-> FALSE, panicked |-> FALSE]

cbtServeHTTP_proxyUnchecked(instances, r) ==
    IF r.header = "" THEN upError(400)
    ELSE IF r.header \notin DOMAIN instances THEN upError(404)
    ELSE IF ~instances[r.header].proxy THEN [upError(500) EXCEPT !.panicked = TRUE]
    ELSE proxyServeHTTP(r)

\* CBTHandler.ServeHTTP
cbtServeHTTP(instances, r) ==
    IF r.header = "" THEN upError(400)
    ELSE IF r.header \notin DOMAIN instances THEN upError(404)
    ELSE IF ~instances[r.header].proxy THEN upError(500)
    ELSE proxyServeHTTP(r)

\* PrometheusHandler.ServeHTTP and LokiHandler.ServeHTTP, as their tests
\* assert them
promServeHTTP(instances, r) ==
    IF r.header = "" THEN upError(400)
    ELSE IF r.header \notin DOMAIN instances THEN upError(404)
    ELSE IF instances[r.header].isNil THEN upError(500)
    ELSE proxyServeHTTP(r)

\* ClickHouseHandler.ServeHTTP: 400 and 404 as its tests assert them, 200 or
\* 502 from the cluster's reverse proxy, 500 for a target that is not usable
chServeHTTP(instances, r) ==
    IF r.header = "" THEN upError(400)
    ELSE IF r.header \notin DOMAIN instances THEN upError(404)
    ELSE IF instances[r.header].isNil THEN upError(500)
    ELSE proxyServeHTTP(r)

\* S3Handler.ServeHTTP: one target, no datasource header read; 503 without a
\* config and 400 without a bucket as its tests assert them, 500 for an
\* endpoint that does not parse, 502 when the round trip fails
s3ServeHTTP(cfgs, r) ==
    IF cfgs = <<>> THEN upError(503)
    ELSE IF ~r.hasBucket THEN upError(400)
    ELSE IF ~cfgs[1].UrlParses THEN upError(500)
    ELSE proxyServeHTTP(r)

UpKinds == {"cbt", "clickhouse", "prometheus", "loki", "s3"}

\* the ServeHTTP of a handler of the kind built from the configs
kindServeHTTP(kind, cfgs, r) ==
    CASE kind = "cbt" -> cbtServeHTTP(NewHandler(kind, cfgs), r)
      [] kind = "clickhouse" -> chServeHTTP(NewHandler(kind, cfgs), r)
      [] kind = "s3" -> s3ServeHTTP(cfgs, r)
      [] OTHER -> promServeHTTP(NewHandler(kind, cfgs), r)

\* the handlers behind the routes of the standalone service
RoutedKinds == {"clickhouse", "prometheus", "loki", "s3"}

\* a handler of the service, as NewStandalone builds it (only from a config
\* that is there), and a request that reaches it
RouteInputs ==
    {i \in [kind : RoutedKinds,
            cfgs : SeqsUpTo(TargetConfigs, MaxTargets) \ {<<>>},
            req : [header : {""} \union DatasourceNames \union {UnknownName},
                   hasBucket : BOOLEAN, transportOk : BOOLEAN,
                   upstreamStatus : UpstreamStatuses]] :
        /\ i.kind = "s3" => Len(i.cfgs) = 1
        /\ i.kind # "s3" => i.req.hasBucket}

\* what a handler of the service can answer
HandlerAnswers == {kindServeHTTP(i.kind, i.cfgs, i.req) : i \in RouteInputs}

\* NewStandalone and Start
InitProxy ==
    /\ proxyCfg \in ProxyConfigs
    /\ limiters = EmptyEnv /\ req = NoRequest /\ reqAt = 0
    /\ trace = <<>> /\ resp = NoResponse /\ ctxUser = 0 /\ reqTook = 0
    /\ reqMade = FALSE /\ reqAudited = FALSE /\ reqLimiter = NoHeld
    /\ generated = 0 /\ issued = EmptyEnv /\ tokOp = NoValidate
    /\ IF proxyCfg.Mode = "jwt"
       THEN /\ tokens = EmptyEnv
            /\ jwtCfg \in {NoJWTConfig, [Issuer |-> "https://idp", Audience |-> "mcp",
                                           AllowedOrgs |-> {"ethpandaops"}]}
            /\ \E jwks \in SUBSET JwkKeys : keys = newKeys(jwks)
            /\ jwtArg = NoJWT /\ jwtOut = NoResult
       ELSE tokens \in ProxyStores /\ jwtIdle
    /\ now = 0
    /\ pxRestIdle

\* a request arrives on a per-kind route
Arrive ==
    /\ reqAt = 0
    /\ req' \in ProxyRequests(proxyCfg.Mode)
    /\ reqAt' = 1
    /\ UNCHANGED <<proxyCfg, limiters, trace, resp, ctxUser, reqTook, reqMade, reqLimiter, reqAudited, now,
                   tokVars, jwtVars, pxRest>>

Entering(layer) == reqAt \in DOMAIN chain /\ chain[reqAt] = layer

Returning == reqAt > Len(chain)

AuthLayer ==
    /\ Entering("auth")
    /\ trace' = Append(trace, "auth")
    /\ LET a == IF proxyCfg.Mode = "token"
                THEN tokenAuthenticate(tokens, req, now)
                ELSE jwtAuthenticate(jwtCfg, keys, req, now)
       IN  /\ resp' = a.resp
           /\ ctxUser' = a.user
           /\ reqAt' = IF a.ok THEN reqAt + 1 ELSE Len(chain) + 1
    /\ tokens' = IF proxyCfg.Mode = "token" /\ req.Authorization = "Bearer"
                 THEN StoreAfterValidate(tokens, req.token, now) ELSE tokens
    /\ UNCHANGED <<proxyCfg, limiters, req, reqTook, reqMade, reqLimiter, reqAudited, generated, issued,
                   tokOp, now, jwtVars, pxRest>>

\* RateLimiter.Middleware as far as getLimiter has returned: a request without
\* user id goes on unchecked; otherwise the user's bucket is found in the map,
\* or a full one is put there
RateLimitLayer ==
    /\ Entering("ratelimit")
    /\ reqLimiter.state = "none"
    /\ trace' = Append(trace, "ratelimit")
    /\ IF ctxUser = 0
       THEN /\ reqAt' = reqAt + 1
            /\ UNCHANGED <<limiters, reqMade, reqLimiter>>
       ELSE /\ limiters' = [u \in DOMAIN limiters \cup {ctxUser} |->
                               getLimiter(proxyCfg.RateLimiting, limiters, u, now)]
            /\ reqMade' = (ctxUser \notin DOMAIN limiters)
            /\ reqLimiter' = [NoHeld EXCEPT !.state = "map"]
            /\ UNCHANGED reqAt
    /\ UNCHANGED <<proxyCfg, req, resp, ctxUser, reqTook, reqAudited, now, tokVars, jwtVars,
                   pxRest>>

\* the bucket the request holds: the one of the map, or the one cleanup has
\* removed from the map meanwhile
HeldLimiter ==
    IF reqLimiter.state = "map" THEN limiters[ctxUser]
    ELSE [tokens |-> reqLimiter.tokens, last |-> reqLimiter.last]

\* RateLimiter.Allow, limiter.Allow() on the bucket getLimiter returned, and
\* the rest of RateLimiter.Middleware
RateLimitAllow ==
    /\ Entering("ratelimit")
    /\ reqLimiter.state # "none"
    /\ LET cfg == proxyCfg.RateLimiting
           after == LimiterAfterAllow(cfg, HeldLimiter, now)
       IN  /\ limiters' = IF reqLimiter.state = "map"
                          THEN [limiters EXCEPT ![ctxUser] = after] ELSE limiters
           /\ IF LimiterAllow(cfg, HeldLimiter, now)
              THEN reqTook' = reqTook + 1 /\ reqAt' = reqAt + 1 /\ UNCHANGED resp
              ELSE /\ resp' = rateLimitExceeded
                   /\ reqAt' = Len(chain) + 1
                   /\ UNCHANGED reqTook
    /\ reqLimiter' = NoHeld
    /\ UNCHANGED <<proxyCfg, req, trace, ctxUser, reqMade, reqAudited, now, tokVars, jwtVars,
                   pxRest>>

\* Auditor.Middleware up to its call of next
AuditLayer ==
    /\ Entering("audit")
    /\ trace' = Append(trace, "audit")
    /\ reqAt' = reqAt + 1
    /\ UNCHANGED <<proxyCfg, limiters, req, resp, ctxUser, reqTook, reqMade, reqLimiter, reqAudited, now,
                   tokVars, jwtVars, pxRest>>

\* the handler of the route: its own refusal, or what the upstream or the
\* reverse proxy answers
Handler ==
    /\ Entering("handler")
    /\ trace' = Append(trace, "handler")
    /\ \E answer \in HandlerAnswers :
          resp' = [status |-> answer.status,
                   body |-> IF answer.forwarded THEN "upstream" ELSE "handler",
                   headers |-> resp.headers]
    /\ reqAt' = reqAt + 1
    /\ UNCHANGED <<proxyCfg, limiters, req, ctxUser, reqTook, reqMade, reqLimiter, reqAudited, now,
                   tokVars, jwtVars, pxRest>>

\* Auditor.Middleware after next has returned: the audit entry
AuditReturn ==
    /\ Returning
    /\ "audit" \in Range(trace)
    /\ ~reqAudited
    /\ reqAudited' = TRUE
    /\ UNCHANGED <<proxyCfg, limiters, req, reqAt, trace, resp, ctxUser, reqTook, reqMade, reqLimiter, now,
                   tokVars, jwtVars, pxRest>>

\* the response has been sent
Finish ==
    /\ Returning
    /\ "audit" \in Range(trace) => reqAudited
    /\ reqAt' = 0
    /\ req' = NoRequest /\ trace' = <<>> /\ resp' = NoResponse /\ ctxUser' = 0
    /\ reqTook' = 0 /\ reqMade' = FALSE /\ reqAudited' = FALSE /\ reqLimiter' = NoHeld
    /\ UNCHANGED <<proxyCfg, limiters, now, tokVars, jwtVars, pxRest>>

\* one round of RateLimiter.cleanupLoop: a bucket a request holds stays with
\* the request when it is removed from the map
Cleanup ==
    /\ proxyCfg.RateLimiting.Enabled
    /\ limiters # EmptyEnv
    /\ limiters' = LimitersAfterCleanup(proxyCfg.RateLimiting, limiters, now)
    /\ reqLimiter' = IF reqLimiter.state = "map" /\ ctxUser \notin DOMAIN limiters'
                     THEN [state |-> "orphan", tokens |-> limiters[ctxUser].tokens,
                           last |-> limiters[ctxUser].last]
                     ELSE reqLimiter
    /\ UNCHANGED <<proxyCfg, req, reqAt, trace, resp, ctxUser, reqTook, reqMade, reqAudited,
                   now, tokVars, jwtVars, pxRest>>

\* the MCP server revokes an execution's token
ProxyRevoke ==
    /\ proxyCfg.Mode = "token"
    /\ \E e \in {tokens[t].executionID : t \in DOMAIN tokens} : tokens' = StoreRevoke(tokens, e)
    /\ UNCHANGED <<generated, issued, tokOp, now, pxVars, jwtVars, pxRest>>

\* a request is served within one tick
ProxyTick == reqAt = 0 /\ Tick /\ UNCHANGED <<pxVars, tokVars, jwtVars, pxRest>>

NextProxy ==
    \/ Arrive \/ AuthLayer \/ RateLimitLayer \/ RateLimitAllow \/ AuditLayer \/ Handler
    \/ AuditReturn \/ Finish
    \/ Cleanup \/ ProxyRevoke \/ ProxyTick

SpecProxy == InitProxy /\ [][NextProxy]_vars


\* ---- what the claims speak about ----
\* the request was turned away by the layer it entered last
RejectedBy(layer) == Returning /\ trace # <<>> /\ trace[Len(trace)] = layer

\* C6: every request to an authenticated route whose authentication fails is
\* answered with HTTP 401 and the same generic body "invalid or expired token",
\* and the wrapped handler is not invoked.
C6_GenericUnauthorized ==
    RejectedBy("auth") =>
        /\ resp = Unauthorized("invalid or expired token")
        /\ "handler" \notin Range(trace)

LayerRank(layer) ==
    CASE layer = "auth" -> 1 [] layer = "ratelimit" -> 2 [] layer = "audit" -> 3 [] OTHER -> 4

\* C7: on a per-kind route the layers run strictly in the order auth,
\* rate-limit, audit, handler, auth first and no configured layer skipped; a
\* request rejected by authentication has entered no other layer, has consumed
\* no rate-limit token and has created no limiter entry; a request rejected by
\* the rate limiter has reached neither the audit layer nor the handler.
C7_ChainOrder ==
    /\ \A i, j \in DOMAIN trace : i < j => LayerRank(trace[i]) < LayerRank(trace[j])
    /\ trace # <<>> => trace[1] = "auth"
    /\ "handler" \in Range(trace) =>
          /\ proxyCfg.RateLimiting.Enabled => "ratelimit" \in Range(trace)
          /\ proxyCfg.Audit.Enabled => "audit" \in Range(trace)
    /\ RejectedBy("auth") => trace = <<"auth">> /\ reqTook = 0 /\ ~reqMade /\ ~reqAudited
    /\ RejectedBy("ratelimit") =>
          /\ "audit" \notin Range(trace)
          /\ "handler" \notin Range(trace)
          /\ ~reqAudited

\* with rate limiting and audit on, an authenticated request is turned away by
\* the rate limiter with 429
C7_Witness ==
    /\ proxyCfg.RateLimiting.Enabled
    /\ proxyCfg.Audit.Enabled
    /\ RejectedBy("ratelimit")
    /\ trace = <<"auth", "ratelimit">>
    /\ resp.status = 429
    /\ ctxUser \in DOMAIN limiters

(***************************************************************************)
(* pkg/middleware: the in-memory rate limiter, for one key.                *)
(*                                                                         *)
(* Quantities are fixed-point.  One tick of the clock is a minute.  A rate *)
(* r stands for r/RateScale requests per second, so that a rule can        *)
(* configure less than one request per minute; a token count n stands for  *)
(* n/TokenScale tokens, and a bucket of rate r gains r token units per     *)
(* tick.                                                                   *)
(***************************************************************************)
\* seconds in a tick
SecondsPerTick == 60

\* the rate 1.0 requests per second
RateScale == 600

\* the token count 1.0
TokenScale == RateScale \div SecondsPerTick

\* in ticks
defaultCleanupInterval == 5

GetRequestsPerSecond(r) ==
    IF r.RequestsPerSecond > 0 THEN r.RequestsPerSecond
    ELSE IF r.RequestsPerMinute > 0 THEN (r.RequestsPerMinute * RateScale) \div SecondsPerTick
    ELSE RateScale

GetBurstSize(r) ==
    IF r.BurstSize > 0 THEN r.BurstSize
    ELSE LET burst == GetRequestsPerSecond(r) \div RateScale
         IN  IF burst < 1 THEN 1 ELSE burst

\* a time.Duration d stands for d/DurationScale seconds
DurationScale == 2

GetBlockDuration(r) ==
    IF r.BlockDuration > 0 THEN r.BlockDuration ELSE 60 * DurationScale

\* time.Duration.Seconds() converted with int(): the whole seconds of d
WholeSeconds(d) == d \div DurationScale

\* time.Now().Add(d).Unix() at tick t: whole seconds since the start of the clock
UnixAfter(t, d) == (t * SecondsPerTick * DurationScale + d) \div DurationScale

\* rate.NewLimiter: a full bucket
NewLimiter(limit, burst) ==
    [limit |-> limit, burst |-> burst, tokens |-> burst * TokenScale, last |-> 0]

\* rate.Limiter.advance: the tokens of the bucket at time t, refilled lazily
advance(lim, t) ==
    Min(lim.burst * TokenScale, lim.tokens + lim.limit * (t - lim.last))

\* rate.Limiter.Allow at time t
rateAllow(lim, t) == advance(lim, t) >= TokenScale

\* the bucket after Allow at time t: a refused call leaves it as it was
rateAfterAllow(lim, t) ==
    IF rateAllow(lim, t)
    THEN [lim EXCEPT !.tokens = advance(lim, t) - TokenScale, !.last = t]
    ELSE lim

newEntry(r, t) ==
    [limiter |-> NewLimiter(GetRequestsPerSecond(r), GetBurstSize(r)),
     lastUsed |-> t,
     resetAt |-> UnixAfter(t, GetBlockDuration(r)),
     burstSize |-> GetBurstSize(r),
     ratePerSec |-> GetRequestsPerSecond(r)]

\* the entry at address e is reachable from the map or from a caller
Referenced(e, inMap, held) == e = inMap \/ \E c \in Callers : held[c] = e

\* garbage collection: an unreachable entry frees its address
Collect(heap, inMap, held) ==
    [e \in EntryIds |-> IF Referenced(e, inMap, held) THEN heap[e] ELSE NoEntry]

FreeId == CHOOSE e \in EntryIds :
              /\ ~Referenced(e, imlLimiters, callerEntry)
              /\ \A f \in EntryIds : ~Referenced(f, imlLimiters, callerEntry) => e <= f

\* the last minute of the limiter's clock: the first at which an entry used at
\* minute 0 is stale
MaxClock == defaultCleanupInterval + 1

\* the janitor removes entries whose last use is older than the interval
IsStale(entry, t) == entry.lastUsed < t - defaultCleanupInterval

RECURSIVE AllowedIn(_, _, _)
\* requests allowed in the minutes t1..t2
AllowedIn(hist, t1, t2) == IF t1 > t2 THEN 0 ELSE hist[t1] + AllowedIn(hist, t1 + 1, t2)

RateLimitRules ==
    [RequestsPerSecond : 0..1, RequestsPerMinute : 0..1, BurstSize : 0..MaxBurst,
     BlockDuration : {0}]

\* newInMemoryLimiter: an empty map and a running cleanup ticker; the first
\* request arrives at some moment of the ticker's period
InitRL ==
    /\ rlRestIdle
    /\ now = 0
    /\ rule \in RateLimitRules
    /\ imlLimiters = 0
    /\ entries = [e \in EntryIds |-> NoEntry]
    /\ callerPc = [c \in Callers |-> "idle"]
    /\ callerEntry = [c \in Callers |-> 0]
    /\ allowedAt = [t \in 0..MaxClock |-> 0]
    /\ nextSweep \in 1..defaultCleanupInterval

\* getOrCreateEntry, the read-locked lookup
Lookup(c) ==
    /\ callerPc[c] = "idle"
    /\ IF imlLimiters # 0
       THEN /\ callerPc' = [callerPc EXCEPT ![c] = "exists"]
            /\ callerEntry' = [callerEntry EXCEPT ![c] = imlLimiters]
       ELSE /\ callerPc' = [callerPc EXCEPT ![c] = "create"]
            /\ UNCHANGED callerEntry
    /\ UNCHANGED <<now, rule, imlLimiters, entries, allowedAt, nextSweep, rlRest>>

\* getOrCreateEntry, the entry was in the map: lastUsed and resetAt are updated
Touch(c) ==
    /\ callerPc[c] = "exists"
    /\ entries' = [entries EXCEPT ![callerEntry[c]].lastUsed = now,
                                  ![callerEntry[c]].resetAt = UnixAfter(now, GetBlockDuration(rule))]
    /\ callerPc' = [callerPc EXCEPT ![c] = "consult"]
    /\ UNCHANGED <<now, rule, imlLimiters, callerEntry, allowedAt, nextSweep, rlRest>>

\* getOrCreateEntry, the entry was not in the map: under the write lock, use
\* the entry another caller has created meanwhile, or create one
Create(c) ==
    /\ callerPc[c] = "create"
    /\ IF imlLimiters # 0
       THEN /\ entries' = [entries EXCEPT ![imlLimiters].lastUsed = now]
            /\ callerEntry' = [callerEntry EXCEPT ![c] = imlLimiters]
            /\ UNCHANGED imlLimiters
       ELSE /\ entries' = [entries EXCEPT ![FreeId] = newEntry(rule, now)]
            /\ callerEntry' = [callerEntry EXCEPT ![c] = FreeId]
            /\ imlLimiters' = FreeId
    /\ callerPc' = [callerPc EXCEPT ![c] = "consult"]
    /\ UNCHANGED <<now, rule, allowedAt, nextSweep, rlRest>>

\* Allow, after getOrCreateEntry: consult the bucket; the request is allowed
\* when the bucket gives a token
Consult(c) ==
    /\ callerPc[c] = "consult"
    /\ LET e == callerEntry[c]
           lim == entries[e].limiter
           ok == rateAllow(lim, now)
           held == [callerEntry EXCEPT ![c] = 0]
       IN  /\ entries' = Collect([entries EXCEPT ![e].limiter = rateAfterAllow(lim, now)],
                                 imlLimiters, held)
           /\ callerEntry' = held
           /\ allowedAt' = IF ok THEN [allowedAt EXCEPT ![now] = @ + 1] ELSE allowedAt
    /\ callerPc' = [callerPc EXCEPT ![c] = "idle"]
    /\ UNCHANGED <<now, rule, imlLimiters, nextSweep, rlRest>>

\* cleanupLoop: the ticker fires and cleanup removes the entry when it is stale
cleanup ==
    /\ now = nextSweep
    /\ nextSweep' = nextSweep + defaultCleanupInterval
    /\ IF imlLimiters # 0 /\ IsStale(entries[imlLimiters], now)
       THEN /\ imlLimiters' = 0
            /\ entries' = Collect(entries, 0, callerEntry)
       ELSE UNCHANGED <<imlLimiters, entries>>
    /\ UNCHANGED <<now, rule, callerPc, callerEntry, allowedAt, rlRest>>

\* a minute passes, between calls (a call takes far less than a minute); the
\* ticker does not miss its moment
RLTick ==
    /\ now < MaxClock
    /\ \A c \in Callers : callerPc[c] = "idle"
    /\ now < nextSweep
    /\ now' = now + 1
    /\ UNCHANGED <<rlVars, rlRest>>

NextRL ==
    \/ \E c \in Callers : Lookup(c)
    \/ \E c \in Callers : Touch(c)
    \/ \E c \in Callers : Create(c)
    \/ \E c \in Callers : Consult(c)
    \/ cleanup
    \/ RLTick

SpecRL == InitRL /\ [][NextRL]_vars

\* C8: for every rule, in every window of minutes t1..t2 (a window of
\* T = (t2 - t1) * 60 seconds), the number of requests the limiter has allowed
\* for the key is at most burst + rate * T + 1, whatever the interleaving of
\* the callers and of the janitor.
C8_WindowBound ==
    \A t1, t2 \in 0..now :
        t1 <= t2 =>
            TokenScale * AllowedIn(allowedAt, t1, t2)
                <= TokenScale * GetBurstSize(rule)
                   + GetRequestsPerSecond(rule) * (t2 - t1)
                   + TokenScale

(***************************************************************************)
(* pkg/middleware: RateLimiter.Middleware, for the requests of one client  *)
(* on one tool, served one after the other.                                *)
(***************************************************************************)
\* the address of a new entry: the first one nothing refers to
FreeEntryId(inMap, held) ==
    CHOOSE e \in EntryIds :
        /\ ~Referenced(e, inMap, held)
        /\ \A f \in EntryIds : ~Referenced(f, inMap, held) => e <= f

\* no RateLimitInfo yet
NoInfo == [Limit |-> -1, Remaining |-> -1, ResetAt |-> -1]

\* inMemoryLimiter.Allow, before the bucket is asked: the RateLimitInfo, with
\* int(entry.limiter.Tokens()) as the remaining tokens
allowInfo(entry, t) ==
    LET tokensNow == advance(entry.limiter, t) \div TokenScale
    IN  [Limit |-> entry.ratePerSec,
         Remaining |-> IF tokensNow < 0 THEN 0 ELSE tokensNow,
         ResetAt |-> entry.resetAt]

mwRespond_deniedReachesNext(r, allowed, info) ==
    [status |-> IF allowed THEN 200 ELSE 429,
     RetryAfter |-> IF allowed THEN -1 ELSE WholeSeconds(GetBlockDuration(r)),
     Limit |-> info.Limit, Remaining |-> info.Remaining, ResetAt |-> info.ResetAt,
     next |-> TRUE]

\* what the middleware writes once Allow has decided: the limit headers, and
\* either the next handler's answer or 429 with Retry-After
mwRespond(r, allowed, info) ==
    [status |-> IF allowed THEN 200 ELSE 429,
     RetryAfter |-> IF allowed THEN -1 ELSE WholeSeconds(GetBlockDuration(r)),
     Limit |-> info.Limit, Remaining |-> info.Remaining, ResetAt |-> info.ResetAt,
     next |-> allowed]

\* the middleware is a transparent no-op when rate limiting is disabled
PassThrough == [NoMwResponse EXCEPT !.status = 200, !.next = TRUE]

\* largest configured block_duration, in units of 1/DurationScale second
MaxBlock == 3

MwRules ==
    [RequestsPerSecond : 0..1, RequestsPerMinute : 0..1, BurstSize : 0..MaxBurst,
     BlockDuration : 0..MaxBlock]

InitMw ==
    /\ mwRestIdle
    /\ now = 0
    /\ mwCfg \in [Enabled : BOOLEAN, rule : MwRules]
    /\ mwMap = 0
    /\ mwEntries = [e \in EntryIds |-> NoEntry]
    /\ mwPc = [c \in Callers |-> "idle"]
    /\ mwHeld = [c \in Callers |-> 0]
    /\ mwInfo = [c \in Callers |-> NoInfo]
    /\ mwFresh = FALSE
    /\ mwDecided = 0
    /\ mwSeq = 0
    /\ mwResp = NoMwResponse

\* Middleware with rate limiting disabled: the request goes to the next handler
MwPass ==
    /\ ~mwCfg.Enabled
    /\ mwResp' = PassThrough
    /\ UNCHANGED <<now, mwCfg, mwMap, mwEntries, mwPc, mwHeld, mwInfo, mwFresh, mwDecided,
                   mwSeq, mwRest>>

\* Middleware, Allow, getOrCreateEntry: the read-locked lookup
MwLookup(c) ==
    /\ mwCfg.Enabled
    /\ mwPc[c] = "idle"
    /\ IF mwMap # 0
       THEN /\ mwPc' = [mwPc EXCEPT ![c] = "exists"]
            /\ mwHeld' = [mwHeld EXCEPT ![c] = mwMap]
       ELSE /\ mwPc' = [mwPc EXCEPT ![c] = "create"]
            /\ UNCHANGED mwHeld
    /\ UNCHANGED <<now, mwCfg, mwMap, mwEntries, mwInfo, mwFresh, mwDecided, mwSeq, mwResp,
                   mwRest>>

\* getOrCreateEntry, the entry was in the map: lastUsed and resetAt are
\* updated under the lock
MwTouch(c) ==
    /\ mwPc[c] = "exists"
    /\ mwEntries' = [mwEntries EXCEPT
                        ![mwHeld[c]].lastUsed = now,
                        ![mwHeld[c]].resetAt = UnixAfter(now, GetBlockDuration(mwCfg.rule))]
    /\ mwPc' = [mwPc EXCEPT ![c] = "info"]
    /\ UNCHANGED <<now, mwCfg, mwMap, mwHeld, mwInfo, mwFresh, mwDecided, mwSeq, mwResp,
                   mwRest>>

\* getOrCreateEntry, the entry was not in the map: under the write lock the
\* entry another request has put there meanwhile is used, or one is created
MwCreate(c) ==
    /\ mwPc[c] = "create"
    /\ IF mwMap # 0
       THEN /\ mwEntries' = [mwEntries EXCEPT ![mwMap].lastUsed = now]
            /\ mwHeld' = [mwHeld EXCEPT ![c] = mwMap]
            /\ UNCHANGED <<mwMap, mwFresh, mwDecided>>
       ELSE LET e == FreeEntryId(mwMap, mwHeld)
            IN  /\ mwEntries' = [mwEntries EXCEPT ![e] = newEntry(mwCfg.rule, now)]
                /\ mwHeld' = [mwHeld EXCEPT ![c] = e]
                /\ mwMap' = e
                /\ mwFresh' = TRUE
                /\ mwDecided' = 0
    /\ mwPc' = [mwPc EXCEPT ![c] = "info"]
    /\ UNCHANGED <<now, mwCfg, mwInfo, mwSeq, mwResp, mwRest>>

\* Allow: the RateLimitInfo is built from the entry, outside the lock of the map
MwInfo(c) ==
    /\ mwPc[c] = "info"
    /\ mwInfo' = [mwInfo EXCEPT ![c] = allowInfo(mwEntries[mwHeld[c]], now)]
    /\ mwPc' = [mwPc EXCEPT ![c] = "decide"]
    /\ UNCHANGED <<now, mwCfg, mwMap, mwEntries, mwHeld, mwFresh, mwDecided, mwSeq, mwResp,
                   mwRest>>

\* Allow: entry.limiter.Allow(); Middleware: the headers, and 429 or the next
\* handler
MwDecide(c) ==
    /\ mwPc[c] = "decide"
    /\ LET e == mwHeld[c]
           lim == mwEntries[e].limiter
           held == [mwHeld EXCEPT ![c] = 0]
           onFresh == mwFresh /\ e = mwMap
           k == Min(mwDecided + 1, GetBurstSize(mwCfg.rule) + 2)
       IN  /\ mwEntries' = Collect([mwEntries EXCEPT ![e].limiter = rateAfterAllow(lim, now)],
                                   mwMap, held)
           /\ mwHeld' = held
           /\ mwResp' = mwRespond(mwCfg.rule, rateAllow(lim, now), mwInfo[c])
           /\ mwSeq' = IF onFresh THEN k ELSE 0
           /\ mwDecided' = IF onFresh THEN k ELSE mwDecided
    /\ mwInfo' = [mwInfo EXCEPT ![c] = NoInfo]
    /\ mwPc' = [mwPc EXCEPT ![c] = "idle"]
    /\ UNCHANGED <<now, mwCfg, mwMap, mwFresh, mwRest>>

\* the janitor removes the key's entry when it is stale
MwCleanup ==
    /\ mwMap # 0
    /\ IsStale(mwEntries[mwMap], now)
    /\ mwMap' = 0
    /\ mwEntries' = Collect(mwEntries, 0, mwHeld)
    /\ mwFresh' = FALSE
    /\ mwDecided' = 0
    /\ mwSeq' = 0
    /\ UNCHANGED <<now, mwCfg, mwPc, mwHeld, mwInfo, mwResp, mwRest>>

\* a minute passes, between requests: later requests no longer arrive at the
\* instant of creation
MwTick ==
    /\ now < MaxClock
    /\ \A c \in Callers : mwPc[c] = "idle"
    /\ now' = now + 1
    /\ mwFresh' = FALSE
    /\ mwDecided' = 0
    /\ mwSeq' = 0
    /\ UNCHANGED <<mwCfg, mwMap, mwEntries, mwPc, mwHeld, mwInfo, mwResp, mwRest>>

NextMw ==
    \/ MwPass
    \/ \E c \in Callers : MwLookup(c)
    \/ \E c \in Callers : MwTouch(c)
    \/ \E c \in Callers : MwCreate(c)
    \/ \E c \in Callers : MwInfo(c)
    \/ \E c \in Callers : MwDecide(c)
    \/ MwCleanup
    \/ MwTick

SpecMw == InitMw /\ [][NextMw]_vars

\* the last request was the k-th of those arriving at the instant the key's
\* entry was created
KthOnFreshKey(k) == mwCfg.Enabled /\ mwSeq = k

\* C11 as stated: the first B requests at one instant on a fresh key are
\* allowed and the (B+1)-th is answered 429, is not passed on, and its
\* Retry-After equals the effective block duration in seconds.
C11_BurstThenDenyExact ==
    \A k \in 1..(MaxBurst + 1) :
        KthOnFreshKey(k) =>
            /\ k <= GetBurstSize(mwCfg.rule) => mwResp.status = 200 /\ mwResp.next
            /\ k = GetBurstSize(mwCfg.rule) + 1 =>
                  /\ mwResp.status = 429
                  /\ ~mwResp.next
                  /\ mwResp.RetryAfter * DurationScale = GetBlockDuration(mwCfg.rule)

\* C11, amended: the first B requests at one instant on a fresh key are
\* allowed and passed on; the (B+1)-th is answered 429, is not passed to the
\* next handler, and its Retry-After is the effective block duration truncated
\* to whole seconds.
C11_BurstThenDeny ==
    \A k \in 1..(MaxBurst + 1) :
        KthOnFreshKey(k) =>
            /\ k <= GetBurstSize(mwCfg.rule) => mwResp.status = 200 /\ mwResp.next
            /\ k = GetBurstSize(mwCfg.rule) + 1 =>
                  /\ mwResp.status = 429
                  /\ ~mwResp.next
                  /\ mwResp.RetryAfter = WholeSeconds(GetBlockDuration(mwCfg.rule))
                  /\ mwResp.RetryAfter * DurationScale <= GetBlockDuration(mwCfg.rule)
                  /\ GetBlockDuration(mwCfg.rule) < (mwResp.RetryAfter + 1) * DurationScale

\* a rule of burst 2 and the default block duration: the third request at the
\* instant of creation is denied with Retry-After: 60
C11_Witness ==
    /\ KthOnFreshKey(3)
    /\ GetBurstSize(mwCfg.rule) = 2
    /\ mwCfg.rule.BlockDuration = 0
    /\ mwResp.status = 429
    /\ mwResp.RetryAfter = 60

(***************************************************************************)
(* pkg/config: the effective rate, burst and block duration of a rule.     *)
(***************************************************************************)
\* most half requests per second (and half-minutes' worth of requests per
\* minute) a rule configures
MaxHalves == 4

\* rules whose rates are multiples of half a request per second
HalfStepRules ==
    [RequestsPerSecond : {k * (RateScale \div 2) : k \in 0..MaxHalves},
     RequestsPerMinute : {k * (SecondsPerTick \div 2) : k \in 0..MaxHalves},
     BurstSize : 0..MaxBurst,
     BlockDuration : 0..MaxBlock]

InitRule ==
    /\ rpRestIdle
    /\ now = 0
    /\ rpArg \in HalfStepRules
    /\ rpOut = NoRuleOut

\* GetRequestsPerSecond, GetBurstSize and GetBlockDuration of the rule
NormalizeRule ==
    /\ ~rpOut.called
    /\ rpOut' = [called |-> TRUE,
                 RequestsPerSecond |-> GetRequestsPerSecond(rpArg),
                 BurstSize |-> GetBurstSize(rpArg),
                 BlockDuration |-> GetBlockDuration(rpArg)]
    /\ UNCHANGED <<now, rpArg, rpRest>>

NextRule == NormalizeRule

SpecRule == InitRule /\ [][NextRule]_vars

\* the effective rate as the specification words it, in units of 1/RateScale
\* request per second
EffectiveRate(r) ==
    IF r.RequestsPerSecond > 0 THEN r.RequestsPerSecond
    ELSE IF r.RequestsPerMinute > 0 THEN (r.RequestsPerMinute * RateScale) \div 60
    ELSE RateScale

\* the ceiling of a rate, in requests per second
CeilRate(x) == (x + RateScale - 1) \div RateScale

\* C12: the effective burst is the configured burst_size when positive,
\* otherwise the ceiling of the effective rate, and never less than 1.
C12_BurstIsCeilOfRate ==
    rpOut.called =>
        /\ rpOut.BurstSize >= 1
        /\ rpArg.BurstSize > 0 => rpOut.BurstSize = rpArg.BurstSize
        /\ rpArg.BurstSize <= 0 =>
              rpOut.BurstSize = (IF CeilRate(EffectiveRate(rpArg)) < 1 THEN 1
                                 ELSE CeilRate(EffectiveRate(rpArg)))

(***************************************************************************)
(* pkg/proxy: the life of the JWT validator: the first fetch at Start, the *)
(* refresh loop, Stop; and standaloneService.Start around it.              *)
(***************************************************************************)
\* the keys a fetched JWKS document can hold: those of JwkKeys, and the first
\* kid as a signing RSA key whose modulus is not base64url text
JwksEntries == JwkKeys \cup {[Kid |-> 1, Kty |-> "RSA", Use |-> "sig", Decodable |-> FALSE]}

\* most keys in a fetched JWKS document
MaxDocKeys == 2

JwksDocs == {d \in SUBSET JwksEntries : Cardinality(d) <= MaxDocKeys}

\* how a fetch ends: a decoded document, a transport error, a status other
\* than 200, a body that does not decode
RefreshOutcomes == {"ok", "transport", "status", "decode"}

refreshJWKS_failureEmptiesMap(known, outcome, doc) ==
    [err |-> outcome # "ok", keys |-> IF outcome = "ok" THEN newKeys(doc) ELSE {}]

\* jwtValidator.refreshJWKS: the error it returns and the key map afterwards
refreshJWKS(known, outcome, doc) ==
    [err |-> outcome # "ok", keys |-> IF outcome = "ok" THEN newKeys(doc) ELSE known]

serviceStart_bindsBeforeAuth(authErr, listenOk) ==
    IF authErr THEN [err |-> "starting authenticator", bound |-> listenOk, started |-> FALSE]
    ELSE IF ~listenOk THEN [err |-> "binding", bound |-> FALSE, started |-> FALSE]
    ELSE [err |-> "", bound |-> TRUE, started |-> TRUE]

\* standaloneService.Start once the authenticator's Start has returned
serviceStart(authErr, listenOk) ==
    IF authErr THEN [err |-> "starting authenticator", bound |-> FALSE, started |-> FALSE]
    ELSE IF ~listenOk THEN [err |-> "binding", bound |-> FALSE, started |-> FALSE]
    ELSE [err |-> "", bound |-> TRUE, started |-> TRUE]

\* the kids of the keys of a document that have kty=RSA and use=sig
RsaSigKids(doc) == {k.Kid : k \in {e \in doc : e.Kty = "RSA" /\ e.Use = "sig"}}

\* the kids of those among them whose modulus and exponent decode
UsableKids(doc) ==
    {k.Kid : k \in {e \in doc : e.Kty = "RSA" /\ e.Use = "sig" /\ e.Decodable}}

\* what a refresh attempt leaves in the history: its outcome and the map
\* before it, and of a document that decoded the kids of its signing RSA keys
\* and of those among them that decode
Attempted(outcome, doc) ==
    /\ jsLast' = [outcome |-> outcome, before |-> keys]
    /\ jsLatest' = IF outcome = "ok"
                   THEN [got |-> TRUE, rsaSig |-> RsaSigKids(doc), usable |-> UsableKids(doc)]
                   ELSE jsLatest

\* the documents a fetch of the given outcome brings
Fetched(outcome) == IF outcome = "ok" THEN JwksDocs ELSE {{}}

\* the refresh goroutines started so far
StartedLoops == {g \in Loops : loop[g] # "none"}

\* NewJWTValidator: an empty key map, nothing started
InitJwks ==
    /\ jsRestIdle
    /\ now = 0
    /\ jwtCfg = [Issuer |-> "https://idp", Audience |-> "mcp", AllowedOrgs |-> {"ethpandaops"}]
    /\ keys = {}
    /\ jwtArg = NoJWT
    /\ jwtOut = NoResult
    /\ jsLatest = NoJwks /\ jsLast = NoRefresh /\ valPhase = "new"
    /\ loop = [g \in Loops |-> "none"]
    /\ tickPending = [g \in Loops |-> FALSE] /\ stopped = FALSE /\ stopChClosed = FALSE
    /\ stopPc = [c \in Callers |-> "idle"] /\ stopPanic = FALSE /\ lateRefresh = FALSE
    /\ svStarted = FALSE /\ svBound = FALSE /\ svErr = "none"
    /\ svPc = "idle" /\ startLast = NoStart

\* standaloneService.Start, under s.mu, up to the return of the authenticator's
\* Start: refused only when started; the validator's fetch, and after a fetch
\* that succeeded one more refresh goroutine, running from here on
ServiceStart ==
    /\ ~svStarted
    /\ svPc = "idle"
    /\ StartedLoops # Loops
    /\ \E outcome \in RefreshOutcomes, listenOk \in BOOLEAN :
         \E doc \in Fetched(outcome) :
            LET r == refreshJWKS(keys, outcome, doc)
                sv == serviceStart(TRUE, listenOk)
                g == CHOOSE x \in Loops \ StartedLoops : \A y \in Loops \ StartedLoops : x <= y
            IN  /\ keys' = r.keys
                /\ Attempted(outcome, doc)
                /\ startLast' = IF r.err
                                THEN [outcome |-> outcome, loops |-> Cardinality(StartedLoops)]
                                ELSE NoStart
                /\ IF r.err
                   THEN /\ valPhase' = "failed"
                        /\ svErr' = sv.err
                        /\ svBound' = sv.bound
                        /\ svStarted' = sv.started
                        /\ UNCHANGED <<loop, svPc>>
                   ELSE /\ valPhase' = "started"
                        /\ loop' = [loop EXCEPT ![g] = "waiting"]
                        /\ svPc' = "binding"
                        /\ UNCHANGED <<svErr, svBound, svStarted>>
    /\ UNCHANGED <<now, jwtCfg, jwtArg, jwtOut, tickPending, stopped, stopChClosed, stopPc,
                   stopPanic, lateRefresh, jsRest>>

\* standaloneService.Start, still under s.mu: net.Listen, and started when the
\* address was bound
ServiceListen ==
    /\ svPc = "binding"
    /\ \E listenOk \in BOOLEAN :
         LET sv == serviceStart(FALSE, listenOk)
         IN  /\ svErr' = sv.err
             /\ svBound' = sv.bound
             /\ svStarted' = sv.started
    /\ svPc' = "idle"
    /\ UNCHANGED <<now, jwtCfg, keys, jwtArg, jwtOut, jsLatest, jsLast, valPhase, loop,
                   tickPending, stopped, stopChClosed, stopPc, stopPanic, lateRefresh,
                   startLast, jsRest>>

\* the refresh interval of a goroutine's ticker has passed
TickerFires(g) ==
    /\ loop[g] = "waiting"
    /\ ~tickPending[g]
    /\ tickPending' = [tickPending EXCEPT ![g] = TRUE]
    /\ UNCHANGED <<now, jwtCfg, keys, jwtArg, jwtOut, jsLatest, jsLast, valPhase, loop, stopped,
                   stopChClosed, stopPc, stopPanic, lateRefresh, svStarted, svBound, svErr,
                   svPc, startLast, jsRest>>

\* refreshLoop: the select takes the tick and refreshes
LoopRefresh(g) ==
    /\ loop[g] = "waiting"
    /\ tickPending[g]
    /\ tickPending' = [tickPending EXCEPT ![g] = FALSE]
    /\ lateRefresh' = (lateRefresh \/ stopChClosed)
    /\ \E outcome \in RefreshOutcomes :
         \E doc \in Fetched(outcome) :
            /\ keys' = refreshJWKS(keys, outcome, doc).keys
            /\ Attempted(outcome, doc)
    /\ UNCHANGED <<now, jwtCfg, jwtArg, jwtOut, valPhase, loop, stopped, stopChClosed, stopPc,
                   stopPanic, svStarted, svBound, svErr, svPc, startLast, jsRest>>

\* refreshLoop: the select takes the closed stopCh and the goroutine returns,
\* stopping its ticker
LoopExit(g) ==
    /\ loop[g] = "waiting"
    /\ stopChClosed
    /\ loop' = [loop EXCEPT ![g] = "exited"]
    /\ tickPending' = [tickPending EXCEPT ![g] = FALSE]
    /\ UNCHANGED <<now, jwtCfg, keys, jwtArg, jwtOut, jsLatest, jsLast, valPhase,
                   stopped, stopChClosed, stopPc, stopPanic, lateRefresh, svStarted, svBound,
                   svErr, svPc, startLast, jsRest>>

\* jwtValidator.Stop, under the mutex: return when already stopped, else mark
StopEnter(c) ==
    /\ stopPc[c] = "idle"
    /\ IF stopped
       THEN /\ stopPc' = [stopPc EXCEPT ![c] = "returned"]
            /\ UNCHANGED stopped
       ELSE /\ stopPc' = [stopPc EXCEPT ![c] = "closing"]
            /\ stopped' = TRUE
    /\ UNCHANGED <<now, jwtCfg, keys, jwtArg, jwtOut, jsLatest, jsLast, valPhase, loop,
                   tickPending, stopChClosed, stopPanic, lateRefresh, svStarted, svBound, svErr,
                   svPc, startLast, jsRest>>

\* jwtValidator.Stop, after the mutex: close(v.stopCh)
StopClose(c) ==
    /\ stopPc[c] = "closing"
    /\ stopPanic' = (stopPanic \/ stopChClosed)
    /\ stopChClosed' = TRUE
    /\ stopPc' = [stopPc EXCEPT ![c] = "returned"]
    /\ UNCHANGED <<now, jwtCfg, keys, jwtArg, jwtOut, jsLatest, jsLast, valPhase, loop,
                   tickPending, stopped, lateRefresh, svStarted, svBound, svErr, svPc,
                   startLast, jsRest>>

\* the caller may call Stop again
StopAgain(c) ==
    /\ stopPc[c] = "returned"
    /\ stopPc' = [stopPc EXCEPT ![c] = "idle"]
    /\ UNCHANGED <<now, jwtCfg, keys, jwtArg, jwtOut, jsLatest, jsLast, valPhase, loop,
                   tickPending, stopped, stopChClosed, stopPanic, lateRefresh, svStarted,
                   svBound, svErr, svPc, startLast, jsRest>>

NextJwks ==
    \/ ServiceStart
    \/ ServiceListen
    \/ \E g \in Loops : TickerFires(g)
    \/ \E g \in Loops : LoopRefresh(g)
    \/ \E g \in Loops : LoopExit(g)
    \/ \E c \in Callers : StopEnter(c)
    \/ \E c \in Callers : StopClose(c)
    \/ \E c \in Callers : StopAgain(c)

SpecJwks == InitJwks /\ [][NextJwks]_vars

\* otherwise valid tokens, of every kid, signed by every key
KidTokens == {[GoodJWT EXCEPT !.kid = k, !.signer = sg] : k \in {0} \cup Kids, sg \in {0} \cup Kids}

\* C13 as stated: once a document has been fetched the key map holds exactly
\* the kids of the latest document's keys with kty=RSA and use=sig, and a
\* token whose kid is not among them is rejected.
C13_MapIsLatestRsaSig ==
    jsLatest.got =>
        /\ keys = jsLatest.rsaSig
        /\ \A tok \in KidTokens :
              tok.kid \notin jsLatest.rsaSig => ~jwtValidate(jwtCfg, keys, tok, now).ok

\* C13, amended: once a document has been fetched the key map holds exactly
\* the kids of the latest document's keys that have kty=RSA and use=sig and
\* whose modulus and exponent decode; no key of an earlier document survives,
\* and a token whose kid is not among them is rejected.
C13_MapIsLatestUsable ==
    jsLatest.got =>
        /\ keys = jsLatest.usable
        /\ \A tok \in KidTokens :
              tok.kid \notin jsLatest.usable => ~jwtValidate(jwtCfg, keys, tok, now).ok

\* a background refresh has dropped a key the map held, and kept another
C13_Witness ==
    /\ \E g \in Loops : loop[g] = "waiting"
    /\ jsLast.outcome = "ok"
    /\ jsLast.before \ keys # {}
    /\ keys # {}
    /\ \E tok \in KidTokens :
          /\ jwtValidate(jwtCfg, jsLast.before, tok, now).ok
          /\ ~jwtValidate(jwtCfg, keys, tok, now).ok

\* C14: a refresh that failed (transport error, status other than 200, body
\* that does not decode) leaves the key map as it was before the attempt: a
\* non-empty map is not emptied and every token that validated before the
\* attempt validates after it.
C14_FailedRefreshKeepsMap ==
    jsLast.outcome \in {"transport", "status", "decode"} =>
        /\ keys = jsLast.before
        /\ jsLast.before # {} => keys # {}
        /\ \A tok \in KidTokens :
              jwtValidate(jwtCfg, jsLast.before, tok, now).ok
                  => jwtValidate(jwtCfg, keys, tok, now).ok

\* a background refresh failed while the map held a key some token validates under
C14_Witness ==
    /\ \E g \in Loops : loop[g] = "waiting"
    /\ valPhase = "started"
    /\ jsLast.outcome = "status"
    /\ keys # {}
    /\ \E tok \in KidTokens : jwtValidate(jwtCfg, keys, tok, now).ok

\* C15: when the first JWKS fetch fails, the validator's Start returns an
\* error and starts no refresher (the refresh goroutines are those there were
\* before the call), and the proxy's Start returns an error, does not bind
\* the listen socket and does not enter the started state.
C15_FailedFetchIsFatal ==
    valPhase = "failed" =>
        /\ startLast.outcome \in {"transport", "status", "decode"}
        /\ Cardinality(StartedLoops) = startLast.loops
        /\ startLast.loops = 0 => \A g \in Loops : loop[g] = "none" /\ ~tickPending[g]
        /\ svErr = "starting authenticator"
        /\ svPc = "idle"
        /\ ~svBound
        /\ ~svStarted

\* the first fetch got a status other than 200
C15_Witness ==
    /\ valPhase = "failed"
    /\ startLast = [outcome |-> "status", loops |-> 0]
    /\ jsLast.outcome = "status"
    /\ svErr = "starting authenticator"
    /\ keys = {}

\* C16: Stop is idempotent (no call of it, sequential or concurrent, panics or
\* fails) and after the first Stop the refresh loop performs no further
\* refresh.
C16_StopIsFinal == ~stopPanic /\ ~lateRefresh

(***************************************************************************)
(* The sandbox session manager, its two reapers, and the executions of     *)
(* the execute_python tool in its sessions.  One tick of the clock is one  *)
(* sweep interval of the reapers.                                          *)
(***************************************************************************)
\* sandbox.sessions.max_sessions: a session for each caller
MaxSess == Cardinality(Callers)
\* most sessions ever created
MaxIds == MaxSess
\* number of authenticated users
NumOwners == 1
\* sandbox.sessions.ttl, in ticks
SessionTTL == 1
\* the period of the idle reaper: the unit of the session manager's clock
SweepInterval == 1
\* sandbox.sessions.max_duration, in ticks: longer than the idle TTL
SessionMaxDuration == SessionTTL + 1
\* last tick of the session manager's clock: a session can pass its maximum
\* duration and be swept
MaxSessClock == SessionMaxDuration + SweepInterval

\* auth.GetAuthUser(ctx): 0 when the context has no user, else its GitHubID
AuthUsers == 0..NumOwners

\* the owner id the execute_python handler derives from the auth context: ""
\* (0 here) without a user, the decimal text of the GitHubID with one
ownerIDOf(user) == IF user = 0 THEN 0 ELSE Itoa(user)

OwnerIDs == {ownerIDOf(u) : u \in AuthUsers}

newSession(owner, t) ==
    [owner |-> owner, createdAt |-> t, lastUsed |-> t, pendingDestroy |-> FALSE, holder |-> ""]

\* the table without the session id
Without(tab, id) == [x \in DOMAIN tab \ {id} |-> tab[x]]

Attach_ownerUnchecked(tab, id, owner, t) ==
    IF id \notin DOMAIN tab THEN [err |-> "session-not-found", tab |-> tab]
    ELSE [err |-> "", tab |-> [tab EXCEPT ![id].lastUsed = t]]

\* Attach(id, ownerId): not found if absent, forbidden if the owner
\* mismatches, else the session with its last-used time updated
Attach(tab, id, owner, t) ==
    IF id \notin DOMAIN tab THEN [err |-> "session-not-found", tab |-> tab]
    ELSE IF tab[id].owner # owner THEN [err |-> "session-forbidden", tab |-> tab]
    ELSE [err |-> "", tab |-> [tab EXCEPT ![id].lastUsed = t]]

\* Destroy(id, ownerId): owner-checked, idempotent on an unknown id; a session
\* that is executing is flagged and destroyed when its execution completes
DestroySession(tab, id, owner) ==
    IF id \notin DOMAIN tab THEN [err |-> "", tab |-> tab]
    ELSE IF tab[id].owner # owner THEN [err |-> "session-forbidden", tab |-> tab]
    ELSE IF tab[id].holder # "" THEN [err |-> "", tab |-> [tab EXCEPT ![id].pendingDestroy = TRUE]]
    ELSE [err |-> "", tab |-> Without(tab, id)]

\* the sessions Create may evict: those not executing
Evictable(tab) == {x \in DOMAIN tab : tab[x].holder = ""}

\* the least recently used of them
LruVictim(tab) ==
    CHOOSE x \in Evictable(tab) :
        \A y \in Evictable(tab) :
            tab[x].lastUsed < tab[y].lastUsed \/ (tab[x].lastUsed = tab[y].lastUsed /\ x <= y)

\* Create(ownerId, env): under the cap, evicting the LRU idle session
CreateSession(tab, id, owner, t) ==
    IF Cardinality(DOMAIN tab) < MaxSess
    THEN [err |-> "", tab |-> (id :> newSession(owner, t)) @@ tab]
    ELSE IF Evictable(tab) = {} THEN [err |-> "session-cap-exceeded", tab |-> tab]
    ELSE [err |-> "", tab |-> (id :> newSession(owner, t)) @@ Without(tab, LruVictim(tab))]

IdleExpired_neverDue(sess, t) == FALSE

\* the idle reaper destroys sessions with now - lastUsed > TTL
IdleExpired(sess, t) == t - sess.lastUsed > SessionTTL

\* the max-duration reaper destroys sessions past their absolute lifetime
MaxExpired(sess, t) == t - sess.createdAt > SessionMaxDuration

Reap_yanksExecuting(tab, doomed) == [x \in DOMAIN tab \ doomed |-> tab[x]]

\* a reaper's sweep over the doomed sessions: one that is executing is flagged
\* pending-destroy, the others are destroyed
Reap(tab, doomed) ==
    [x \in {y \in DOMAIN tab : y \notin doomed \/ tab[y].holder # ""} |->
        IF x \in doomed THEN [tab[x] EXCEPT !.pendingDestroy = TRUE] ELSE tab[x]]

\* the session lock is released when the execution returns; a session flagged
\* pending-destroy is destroyed then
Release(tab, id) ==
    IF id \notin DOMAIN tab THEN tab
    ELSE IF tab[id].pendingDestroy THEN Without(tab, id)
    ELSE [tab EXCEPT ![id].holder = ""]

TryLock_alwaysGrants(sess, c) == [ok |-> TRUE, sess |-> [sess EXCEPT !.holder = c]]

\* the session mutex: taken by the caller if no execution holds it
TryLock(sess, c) ==
    IF sess.holder = "" THEN [ok |-> TRUE, sess |-> [sess EXCEPT !.holder = c]]
    ELSE [ok |-> FALSE, sess |-> sess]

\* what a sweep leaves in sessOut: whether a session was due, and whether
\* the table is as it was
Swept(op, doomed, tab) ==
    [NoSessOut EXCEPT !.op = op, !.existed = doomed # {}, !.unchanged = (tab = sessions)]

InitSess ==
    /\ sessRestIdle
    /\ now = 0
    /\ sessions = EmptyEnv
    /\ nextId = 1
    /\ execs = [c \in Callers |-> NoExec]
    /\ sessOut = NoSessOut
    /\ idleSweptAt = 0

\* what an operation on the session id leaves in sessOut: its error, whether
\* the id had been handed out, whether the session existed, whether the
\* caller's owner id was the session's, and whether the session is as it was
Returned(op, id, owner, err, tab) ==
    [op |-> op, err |-> err,
     created |-> id < nextId,
     existed |-> id \in DOMAIN sessions,
     ownerMatches |-> id \in DOMAIN sessions /\ sessions[id].owner = owner,
     unchanged |-> (id \in DOMAIN sessions => id \in DOMAIN tab /\ tab[id] = sessions[id])]

\* manage_session create, or the session create command (which passes "")
ManageCreate ==
    /\ nextId <= MaxIds
    /\ \E owner \in OwnerIDs :
         LET r == CreateSession(sessions, nextId, owner, now)
         IN  /\ sessions' = r.tab
             /\ nextId' = IF r.err = "" THEN nextId + 1 ELSE nextId
             /\ sessOut' = NoSessOut
    /\ UNCHANGED <<now, execs, idleSweptAt, sessRest>>

\* manage_session destroy, or the session destroy command (which passes "")
ManageDestroy ==
    /\ \E id \in 1..MaxIds, owner \in OwnerIDs :
         LET r == DestroySession(sessions, id, owner)
         IN  /\ sessions' = r.tab
             /\ sessOut' = NoSessOut
    /\ UNCHANGED <<now, nextId, execs, idleSweptAt, sessRest>>

\* execute_python: the handler derives the owner id from the auth context and
\* calls Execute, which resolves the session and takes the session lock, or
\* queues for it; with an empty session_id the run is in an ephemeral session
\* of its own, which no other call can name
ExecuteBegin(c) ==
    /\ execs[c].pc = "idle"
    /\ \E user \in AuthUsers, sid \in 0..MaxIds :
         IF sid = 0
         THEN /\ sessOut' = [NoSessOut EXCEPT !.op = "ephemeral"]
              /\ UNCHANGED <<sessions, execs>>
         ELSE LET r == Attach(sessions, sid, ownerIDOf(user), now)
                  l == TryLock(r.tab[sid], c)
              IN  /\ sessOut' = Returned("execute", sid, ownerIDOf(user), r.err, r.tab)
                  /\ IF r.err # ""
                     THEN /\ sessions' = r.tab
                          /\ UNCHANGED execs
                     ELSE /\ sessions' = [r.tab EXCEPT ![sid] = l.sess]
                          /\ execs' = [execs EXCEPT ![c] =
                                          [pc |-> IF l.ok THEN "running" ELSE "waiting",
                                           sid |-> sid]]
    /\ UNCHANGED <<now, nextId, idleSweptAt, sessRest>>

\* a queued execution gets the session lock, or finds the session gone
ExecuteAcquire(c) ==
    /\ execs[c].pc = "waiting"
    /\ IF execs[c].sid \notin DOMAIN sessions
       THEN /\ execs' = [execs EXCEPT ![c] = NoExec]
            /\ UNCHANGED sessions
       ELSE /\ TryLock(sessions[execs[c].sid], c).ok
            /\ sessions' = [sessions EXCEPT ![execs[c].sid] = TryLock(@, c).sess]
            /\ execs' = [execs EXCEPT ![c].pc = "running"]
    /\ sessOut' = NoSessOut
    /\ UNCHANGED <<now, nextId, idleSweptAt, sessRest>>

\* the execution returns: the session lock is released
ExecuteEnd(c) ==
    /\ execs[c].pc = "running"
    /\ sessions' = Release(sessions, execs[c].sid)
    /\ execs' = [execs EXCEPT ![c] = NoExec]
    /\ sessOut' = NoSessOut
    /\ UNCHANGED <<now, nextId, idleSweptAt, sessRest>>

\* the idle reaper's sweep
IdleReaper ==
    /\ now >= idleSweptAt + SweepInterval
    /\ LET doomed == {x \in DOMAIN sessions : IdleExpired(sessions[x], now)}
       IN  /\ sessions' = Reap(sessions, doomed)
           /\ sessOut' = Swept("idle-reap", doomed, Reap(sessions, doomed))
    /\ idleSweptAt' = now
    /\ UNCHANGED <<now, nextId, execs, sessRest>>

\* a sweep of the max-duration reaper, for which no period is given, that
\* finds a session due
MaxReaper ==
    /\ LET doomed == {x \in DOMAIN sessions : MaxExpired(sessions[x], now)}
       IN  /\ doomed # {}
           /\ sessions' = Reap(sessions, doomed)
           /\ sessOut' = Swept("max-reap", doomed, Reap(sessions, doomed))
    /\ UNCHANGED <<now, nextId, execs, idleSweptAt, sessRest>>

\* time passes; the idle reaper does not miss its moment
SessTick ==
    /\ now < MaxSessClock
    /\ now < idleSweptAt + SweepInterval
    /\ now' = now + 1
    /\ sessOut' = NoSessOut
    /\ UNCHANGED <<sessions, nextId, execs, idleSweptAt, sessRest>>

NextSess ==
    \/ ManageCreate
    \/ ManageDestroy
    \/ \E c \in Callers : ExecuteBegin(c)
    \/ \E c \in Callers : ExecuteAcquire(c)
    \/ \E c \in Callers : ExecuteEnd(c)
    \/ IdleReaper
    \/ MaxReaper
    \/ SessTick

SpecSess == InitSess /\ [][NextSess]_vars

\* C17: an Execute naming a live session by a caller whose owner id is not
\* the session's fails with the forbidden error and leaves the session as
\* it was; an Execute that attaches to a live session comes from a caller
\* whose owner id is the session's.
C17_OnlyOwnerAttaches ==
    sessOut.op = "execute" /\ sessOut.existed =>
        /\ ~sessOut.ownerMatches => sessOut.err = "session-forbidden" /\ sessOut.unchanged
        /\ sessOut.err = "" => sessOut.ownerMatches

C17_Witness ==
    /\ sessOut.op = "execute" /\ sessOut.existed /\ ~sessOut.ownerMatches
    /\ sessOut.err = "session-forbidden"

\* a session that has been idle for longer than the TTL plus one sweep
Overdue(id) == now - sessions[id].lastUsed > SessionTTL + SweepInterval

\* an Execute naming a session that was created and is no longer there
\* returns not-found
GoneIsNotFound ==
    sessOut.op = "execute" /\ sessOut.created /\ ~sessOut.existed =>
        sessOut.err = "session-not-found"

\* C18 as stated: no session is idle for longer than the TTL plus one sweep
\* interval, and an Attach on a destroyed session's id returns not-found.
C18_NoSessionOverdue ==
    /\ \A id \in DOMAIN sessions : ~Overdue(id)
    /\ GoneIsNotFound

\* C18, amended: no session is idle for longer than the TTL plus one sweep
\* interval unless an execution is running in it, in which case it is flagged
\* pending-destroy; the idle reaper's sweep leaves no session past its TTL
\* other than such flagged ones; and an Attach on a destroyed session's id
\* returns not-found.
C18_NoIdleSessionOverdue ==
    /\ \A id \in DOMAIN sessions :
         Overdue(id) => sessions[id].holder # "" /\ sessions[id].pendingDestroy
    /\ sessOut.op = "idle-reap" =>
         \A id \in DOMAIN sessions :
            IdleExpired(sessions[id], now) =>
                sessions[id].holder # "" /\ sessions[id].pendingDestroy
    /\ GoneIsNotFound

\* the idle reaper has just destroyed a session that was past its TTL, and
\* none is left
C18_Witness ==
    /\ sessOut.op = "idle-reap" /\ sessOut.existed /\ ~sessOut.unchanged
    /\ sessions = EmptyEnv
    /\ nextId > 1

\* C19: at most one execution runs in a session at any time, and the one
\* that runs holds the session mutex for as long as it runs.
C19_OneExecutionPerSession ==
    /\ \A c \in Callers :
         execs[c].pc = "running" =>
            execs[c].sid \in DOMAIN sessions /\ sessions[execs[c].sid].holder = c
    /\ \A c, d \in Callers :
         c # d /\ execs[c].pc = "running" /\ execs[d].pc = "running" =>
            execs[c].sid # execs[d].sid

\* one execution runs in a session while another, naming the same session,
\* waits for its mutex
C19_Witness ==
    \E c, d \in Callers :
        /\ execs[c].pc = "running" /\ execs[d].pc = "waiting"
        /\ execs[c].sid = execs[d].sid

\* executions run in two sessions at once
RunningInTwoSessions ==
    \E c, d \in Callers :
        /\ execs[c].pc = "running" /\ execs[d].pc = "running"
        /\ execs[c].sid # execs[d].sid

\* C20: a session in which an execution is running is not destroyed; a
\* reaper's sweep leaves a session that is due only if an execution is
\* running in it, and flags it pending-destroy; a flagged session does not
\* outlast its execution.
C20_ReapersDeferToExecution ==
    /\ \A c \in Callers : execs[c].pc = "running" => execs[c].sid \in DOMAIN sessions
    /\ \A id \in DOMAIN sessions :
         /\ sessions[id].pendingDestroy => sessions[id].holder # ""
         /\ sessOut.op = "idle-reap" /\ IdleExpired(sessions[id], now) =>
               sessions[id].holder # "" /\ sessions[id].pendingDestroy
         /\ sessOut.op = "max-reap" /\ MaxExpired(sessions[id], now) =>
               sessions[id].holder # "" /\ sessions[id].pendingDestroy

\* a sweep has just flagged a session that is due and in which an execution
\* is running
C20_Witness ==
    /\ sessOut.op \in {"idle-reap", "max-reap"} /\ sessOut.existed /\ ~sessOut.unchanged
    /\ \E id \in DOMAIN sessions, c \in Callers :
         /\ sessions[id].pendingDestroy /\ sessions[id].holder = c
         /\ execs[c] = [pc |-> "running", sid |-> id]
         /\ IdleExpired(sessions[id], now) \/ MaxExpired(sessions[id], now)

(***************************************************************************)
(* The sandbox executor: Execute resolves the session, starts the child in *)
(* a process group with a deadline, and on the deadline or a cancelled     *)
(* context delivers SIGTERM, then SIGKILL after a grace window.  Every     *)
(* return releases the session lock.                                       *)
(***************************************************************************)
\* the kinds of session a run names: none (an ephemeral one of its own), or
\* the session the callers share
RunSessions == {"ephemeral", "shared"}

\* the typed errors of Execute
ExecErrors == {"execution-timeout", "execution-cancelled", "container-backend-failure"}

exReturn_keepsLockOnError(lock, c, kind) ==
    IF lock = c /\ kind = "result" THEN "" ELSE lock

\* the session lock after the call of c returns with kind: released if c
\* held it
exReturn(lock, c, kind) ==
    IF lock = c THEN "" ELSE lock

InitExec ==
    /\ exRestIdle
    /\ exPc = [c \in Callers |-> NoRun]
    /\ exChild = [c \in Callers |-> "none"]
    /\ exLock = ""
    /\ exOut = [c \in Callers |-> "none"]

\* the child is started in its process group, or the backend fails to start
\* it and Execute returns that error
exStart(c, session, started) ==
    IF started
    THEN /\ exPc' = [exPc EXCEPT ![c] = [pc |-> "running", session |-> session, cause |-> ""]]
         /\ exChild' = [exChild EXCEPT ![c] = "running"]
         /\ exLock' = IF session = "shared" THEN c ELSE exLock
         /\ exOut' = [exOut EXCEPT ![c] = "none"]
    ELSE /\ exPc' = [exPc EXCEPT ![c] = NoRun]
         /\ exOut' = [exOut EXCEPT ![c] = "container-backend-failure"]
         /\ exLock' = exReturn(IF session = "shared" THEN c ELSE exLock, c,
                               "container-backend-failure")
         /\ UNCHANGED exChild

\* Execute is called: the session is resolved and its lock taken, or waited for
ExecCall(c) ==
    /\ exPc[c].pc = "idle"
    /\ \E session \in RunSessions, started \in BOOLEAN :
         IF session = "shared" /\ exLock # ""
         THEN /\ exPc' = [exPc EXCEPT ![c] = [pc |-> "waiting", session |-> session, cause |-> ""]]
              /\ exOut' = [exOut EXCEPT ![c] = "none"]
              /\ UNCHANGED <<exChild, exLock>>
         ELSE exStart(c, session, started)
    /\ UNCHANGED exRest

\* the waiting call gets the session lock
ExecLocked(c) ==
    /\ exPc[c].pc = "waiting"
    /\ exLock = ""
    /\ \E started \in BOOLEAN : exStart(c, "shared", started)
    /\ UNCHANGED exRest

\* the context is cancelled while the call waits for the session lock
ExecCancelWaiting(c) ==
    /\ exPc[c].pc = "waiting"
    /\ exPc' = [exPc EXCEPT ![c] = NoRun]
    /\ exOut' = [exOut EXCEPT ![c] = "execution-cancelled"]
    /\ exLock' = exReturn(exLock, c, "execution-cancelled")
    /\ UNCHANGED <<exChild, exRest>>

\* the child ends by itself, or, once signalled, on the signal
ChildExits(c) ==
    /\ exChild[c] \in {"running", "signalled"}
    /\ exChild' = [exChild EXCEPT ![c] = "exited"]
    /\ UNCHANGED <<exPc, exLock, exOut, exRest>>

\* the per-run deadline expires ("execution-timeout") or the context is
\* cancelled ("execution-cancelled"): SIGTERM is delivered to the child
ExecInterrupt(c) ==
    /\ exPc[c].pc = "running"
    /\ \E cause \in {"execution-timeout", "execution-cancelled"} :
         exPc' = [exPc EXCEPT ![c].pc = "terminating", ![c].cause = cause]
    /\ exChild' = [exChild EXCEPT ![c] = IF @ = "running" THEN "signalled" ELSE @]
    /\ UNCHANGED <<exLock, exOut, exRest>>

\* the grace window ends: SIGKILL to the process group
ExecKill(c) ==
    /\ exPc[c].pc = "terminating"
    /\ exChild[c] = "signalled"
    /\ exChild' = [exChild EXCEPT ![c] = "exited"]
    /\ UNCHANGED <<exPc, exLock, exOut, exRest>>

\* the child has ended: it is reaped, the session lock is released and
\* Execute returns the Result, or the error of the interruption
ExecReturn(c) ==
    /\ exPc[c].pc \in {"running", "terminating"}
    /\ exChild[c] = "exited"
    /\ LET kind == IF exPc[c].pc = "running" THEN "result" ELSE exPc[c].cause
       IN  /\ exOut' = [exOut EXCEPT ![c] = kind]
           /\ exLock' = exReturn(exLock, c, kind)
    /\ exChild' = [exChild EXCEPT ![c] = "none"]
    /\ exPc' = [exPc EXCEPT ![c] = NoRun]
    /\ UNCHANGED exRest

NextExec ==
    \/ \E c \in Callers : ExecCall(c)
    \/ \E c \in Callers : ExecLocked(c)
    \/ \E c \in Callers : ExecCancelWaiting(c)
    \/ \E c \in Callers : ChildExits(c)
    \/ \E c \in Callers : ExecInterrupt(c)
    \/ \E c \in Callers : ExecKill(c)
    \/ \E c \in Callers : ExecReturn(c)

\* the timers fire (deadline, grace window), a call that can return does,
\* and a waiting call is cancelled at the latest by its context's deadline
FairExec ==
    \A c \in Callers :
        /\ WF_vars(ExecInterrupt(c))
        /\ WF_vars(ExecKill(c))
        /\ WF_vars(ExecReturn(c))
        /\ WF_vars(ExecCancelWaiting(c) \/ ExecLocked(c))

SpecExec == InitExec /\ [][NextExec]_vars /\ FairExec

\* what a returned call leaves behind: a Result or a typed error, no child,
\* and no session lock held
ReturnedClean(c) ==
    exPc[c].pc = "idle" =>
        /\ exOut[c] \in {"none", "result"} \union ExecErrors
        /\ exChild[c] = "none"
        /\ exLock # c

InitUp ==
    /\ upRestIdle
    /\ upKind \in UpKinds
    /\ upCfgs \in SeqsUpTo(TargetConfigs, IF upKind = "s3" THEN 1 ELSE MaxTargets)
    /\ \E header \in {""} \union DatasourceNames \union {UnknownName},
          hasBucket, transportOk \in BOOLEAN, upstreamStatus \in UpstreamStatuses :
         /\ upKind # "s3" => hasBucket
         /\ upReq = [header |-> header, hasBucket |-> hasBucket, transportOk |-> transportOk,
                     upstreamStatus |-> upstreamStatus]
    /\ upResp = NoUpResp

\* the handler is built and serves the request
UpServeHTTP ==
    /\ upResp = NoUpResp
    /\ upResp' = kindServeHTTP(upKind, upCfgs, upReq)
    /\ UNCHANGED <<upKind, upCfgs, upReq, upRest>>

NextUp == UpServeHTTP

SpecUp == InitUp /\ [][NextUp]_vars

\* the named target's URL failed to parse when the handler was built
TargetUnparsed == \E i \in DOMAIN upCfgs :
    /\ upCfgs[i].Name = upReq.header
    /\ upCfgs[i] = LastConfig(upCfgs, upReq.header)
    /\ ~upCfgs[i].UrlParses

\* the error policy of the claim, for the handler at hand
ErrorPolicy ==
    upResp # NoUpResp =>
        /\ ~upResp.panicked
        /\ IF upReq.header = "" THEN upResp.status = 400 /\ ~upResp.forwarded
           ELSE IF \A i \in DOMAIN upCfgs : upCfgs[i].Name # upReq.header
                THEN upResp.status = 404 /\ ~upResp.forwarded
           ELSE IF TargetUnparsed THEN upResp.status = 500 /\ ~upResp.forwarded
           ELSE IF ~upReq.transportOk THEN upResp.status = 502
           ELSE upResp.forwarded /\ upResp.status = upReq.upstreamStatus

\* C22 as stated: every upstream handler follows the error policy.
C22_ErrorPolicyEveryHandler == ErrorPolicy

\* C22, amended: every upstream handler other than the S3 handler (CBT,
\* ClickHouse, Prometheus, Loki) follows the error policy; the S3 handler,
\* which has one target and reads no datasource header, answers 503 without a
\* config, 400 when the path names no bucket, 500 when its endpoint did not
\* parse, 502 when forwarding fails at transport level, and forwards
\* otherwise, whatever the datasource header.
C22_ErrorPolicyByHeader ==
    /\ upKind # "s3" => ErrorPolicy
    /\ upKind = "s3" /\ upResp # NoUpResp =>
         /\ ~upResp.panicked
         /\ IF upCfgs = <<>> THEN upResp.status = 503 /\ ~upResp.forwarded
            ELSE IF ~upReq.hasBucket THEN upResp.status = 400 /\ ~upResp.forwarded
            ELSE IF ~upCfgs[1].UrlParses THEN upResp.status = 500 /\ ~upResp.forwarded
            ELSE IF ~upReq.transportOk THEN upResp.status = 502
            ELSE upResp.forwarded /\ upResp.status = upReq.upstreamStatus

\* the CBT handler has answered 500 for a target whose URL did not parse
C22_Witness ==
    /\ upKind = "cbt" /\ TargetUnparsed
    /\ upResp.status = 500 /\ ~upResp.forwarded

\* the S3 handler has forwarded a request that names a datasource
S3ForwardedWithHeader ==
    /\ upKind = "s3" /\ upReq.header # ""
    /\ upResp.forwarded /\ upResp.status = upReq.upstreamStatus

\* the ClickHouse handler has answered 404 for a name no cluster has
ClickHouseUnknownName ==
    /\ upKind = "clickhouse" /\ upReq.header = UnknownName
    /\ upResp.status = 404 /\ ~upResp.forwarded

(***************************************************************************)
(* The life of the standalone proxy service: NewStandalone, Start, Stop,   *)
(* the /ready handler, and the background loops of its authenticator and   *)
(* its rate limiter.  Start and Stop hold the service mutex throughout.    *)
(***************************************************************************)
\* most refresh loops alive at once
MaxLoops == 2

\* NewStandalone: the rate limiter, if enabled, starts its cleanup loop
NewStandalone(rateLimited) == [NoService EXCEPT !.rlLoop = rateLimited]

\* standaloneService.Start: the error it returns and the service after it.
\* authOk: the initial JWKS fetch succeeds; bindOk: the port is free
svcStart(svc, mode, authOk, bindOk) ==
    IF svc.started THEN [err |-> "proxy already started", svc |-> svc]
    ELSE IF mode = "jwt" /\ ~authOk THEN [err |-> "starting authenticator", svc |-> svc]
    ELSE LET authed == IF mode = "jwt" THEN [svc EXCEPT !.loops = @ + 1] ELSE svc
         IN  IF ~bindOk THEN [err |-> "binding", svc |-> authed]
             ELSE [err |-> "", svc |-> [authed EXCEPT !.listening = TRUE, !.started = TRUE]]

svcStop_authenticatorLeftRunning(svc, mode, inflight) ==
    IF ~svc.started THEN [err |-> "", svc |-> svc]
    ELSE LET halted == [svc EXCEPT !.rlStopCh = TRUE, !.listening = FALSE]
         IN  IF inflight THEN [err |-> "shutting down proxy server", svc |-> halted]
             ELSE [err |-> "", svc |-> [halted EXCEPT !.started = FALSE]]

\* standaloneService.Stop: the error it returns and the service after it.
\* inflight: requests are still in flight at the context's deadline
svcStop(svc, mode, inflight) ==
    IF ~svc.started THEN [err |-> "", svc |-> svc]
    ELSE LET halted == [svc EXCEPT !.stopCh = (@ \/ mode = "jwt"),
                                   !.rlStopCh = TRUE,
                                   !.listening = FALSE]
         IN  IF inflight THEN [err |-> "shutting down proxy server", svc |-> halted]
             ELSE [err |-> "", svc |-> [halted EXCEPT !.started = FALSE]]

\* the /ready handler
readyStatus(svc) == IF svc.started THEN 200 ELSE 503

InitLife ==
    /\ lcRestIdle
    /\ lcMode \in {"token", "jwt"}
    /\ lcRateLimited \in BOOLEAN
    /\ lcSvc = NewStandalone(lcRateLimited)
    /\ lcPending = 0
    /\ lcPhase = "new"
    /\ lcLast = NoCall

LifeStart ==
    /\ lcSvc.loops < MaxLoops
    /\ \E authOk, bindOk \in BOOLEAN :
         LET r == svcStart(lcSvc, lcMode, authOk, bindOk)
         IN  /\ lcSvc' = r.svc
             /\ lcLast' = [NoCall EXCEPT !.op = "start", !.err = r.err, !.before = lcSvc,
                                         !.after = r.svc]
             /\ lcPhase' = IF r.err = "" THEN "started" ELSE lcPhase
    /\ UNCHANGED <<lcMode, lcRateLimited, lcPending, lcRest>>

\* Stop holds the mutex the /ready handler needs, so a /ready request inside
\* the handler is in flight until the deadline; so may other requests be
LifeStop ==
    /\ \E outlasts \in BOOLEAN :
         LET inflight == lcSvc.started /\ (lcPending > 0 \/ outlasts)
             r == svcStop(lcSvc, lcMode, inflight)
         IN  /\ lcSvc' = r.svc
             /\ lcLast' = [NoCall EXCEPT !.op = "stop", !.err = r.err, !.inflight = inflight,
                                         !.before = lcSvc, !.after = r.svc]
    /\ lcPhase' = IF lcPhase = "started" THEN "stopped" ELSE lcPhase
    /\ UNCHANGED <<lcMode, lcRateLimited, lcPending, lcRest>>

\* a GET /ready is accepted and enters the handler
ReadyArrives ==
    /\ lcSvc.listening
    /\ lcPending = 0
    /\ lcPending' = 1
    /\ UNCHANGED <<lcMode, lcRateLimited, lcSvc, lcPhase, lcLast, lcRest>>

\* the handler reads started and answers
ReadyAnswers ==
    /\ lcPending > 0
    /\ lcPending' = lcPending - 1
    /\ lcLast' = [NoCall EXCEPT !.op = "ready", !.status = readyStatus(lcSvc), !.before = lcSvc,
                                !.after = lcSvc]
    /\ UNCHANGED <<lcMode, lcRateLimited, lcSvc, lcPhase, lcRest>>

\* a refreshLoop goroutine sees the closed stopCh and returns
RefreshLoopExits ==
    /\ lcSvc.loops > 0
    /\ lcSvc.stopCh
    /\ lcSvc' = [lcSvc EXCEPT !.loops = @ - 1]
    /\ UNCHANGED <<lcMode, lcRateLimited, lcPending, lcPhase, lcLast, lcRest>>

\* the rate limiter's cleanupLoop sees its closed stopCh and returns
CleanupLoopExits ==
    /\ lcSvc.rlLoop
    /\ lcSvc.rlStopCh
    /\ lcSvc' = [lcSvc EXCEPT !.rlLoop = FALSE]
    /\ UNCHANGED <<lcMode, lcRateLimited, lcPending, lcPhase, lcLast, lcRest>>

NextLife ==
    \/ LifeStart
    \/ LifeStop
    \/ ReadyArrives
    \/ ReadyAnswers
    \/ RefreshLoopExits
    \/ CleanupLoopExits

\* a goroutine whose select has a closed channel to receive from runs on, and
\* a handler that can take the read lock answers
FairLife ==
    /\ WF_vars(RefreshLoopExits)
    /\ WF_vars(CleanupLoopExits)
    /\ WF_vars(ReadyAnswers)

SpecLife == InitLife /\ [][NextLife]_vars /\ FairLife

\* C23: GET /ready answers 200 if the most recent Start succeeded and no
\* Stop has returned since, and 503 in every other state.
C23_ReadyIffStarted ==
    lcLast.op = "ready" =>
        lcLast.status = (IF lcPhase = "started" THEN 200 ELSE 503)

\* /ready answers by the started flag
ReadyByFlag ==
    lcLast.op = "ready" =>
        lcLast.status = (IF lcLast.before.started THEN 200 ELSE 503)

\* C24: the proxy moves only from New to Started and from Started to
\* Stopped; a Start that fails leaves it not started; a Start on a started
\* proxy returns an error and changes nothing.
C24_OneWayLifecycle ==
    [][/\ lcPhase' # lcPhase =>
            <<lcPhase, lcPhase'>> \in {<<"new", "started">>, <<"started", "stopped">>}
       /\ lcLast'.op = "start" /\ lcLast' # lcLast =>
            /\ lcLast'.err # "" /\ ~lcSvc.started => ~lcSvc'.started /\ ~lcSvc'.listening
            /\ lcSvc.started => lcLast'.err = "proxy already started" /\ lcSvc' = lcSvc
            /\ lcLast'.err = "" => lcSvc'.listening]_vars

\* the proxy is started again after it was stopped
RestartedAfterStop == lcPhase = "started" /\ lcLast.op = "start" /\ lcSvc.rlStopCh

\* C25: a Stop on a started proxy leaves it not listening, with the stop
\* channel of a JWT authenticator closed, and returns an error only if
\* requests were in flight at the deadline; a Stop on a proxy that is not
\* started returns nil and changes nothing; after a Stop on a started proxy
\* every refresh loop exits, unless Start is called again first.
C25_StopHalts ==
    /\ [](lcLast.op = "stop" =>
            IF lcLast.before.started
            THEN /\ ~lcLast.after.listening
                 /\ lcMode = "jwt" => lcLast.after.stopCh
                 /\ lcLast.err # "" => lcLast.inflight
            ELSE lcLast.err = "" /\ lcLast.after = lcLast.before)
    /\ (lcLast.op = "stop" /\ lcLast.before.started)
          ~> (lcSvc.loops = 0 \/ lcLast.op = "start")

\* a Stop on a started JWT proxy has returned nil and its refresh loop has exited
C25_Witness ==
    /\ lcLast.op = "stop" /\ lcLast.before.started /\ lcLast.err = ""
    /\ lcMode = "jwt" /\ lcLast.before.loops > 0 /\ lcSvc.loops = 0
    /\ lcLast.before.listening /\ ~lcSvc.listening /\ ~lcSvc.started

\* ==========================================================================
\* pkg/plugin: Registry.InitPlugin, StartAll and StopAll, over the plugins the
\* binary registers.  The cbt plugin is the one of pkg/plugin/cbt; the others
\* are plugins whose Validate, Start and Stop answer as the interface lets them.
\* ==========================================================================

\* the longest list of initialized plugins
MaxInit == 2

\* the plugins added to the registry besides cbt, and a name that was not added
MockNames == {"p1", "p2"}

RegisteredNames == MockNames \cup {"cbt"}

UnknownPlugin == "nope"

\* what a plugin's Init or Validate returns: nil, an error, or ErrNoValidConfig
PluginResults == {"ok", "error", "sentinel"}

\* one entry of the cbt plugin's instances list
CbtInstances == [Name : {"", "a", "b"}, URL : {"", "u"}]

\* the raw YAML handed to the cbt plugin: whether it unmarshals, and its instances
CbtRawConfigs ==
    [parses : BOOLEAN,
     instances : {<<>>} \cup {<<i>> : i \in CbtInstances}
                        \cup {<<i, j>> : i, j \in CbtInstances}]

\* cbt Plugin.Init keeps the instances that have a name and a URL
cbtValidInstances(raw) ==
    SelectSeq(raw.instances, LAMBDA inst : inst.Name # "" /\ inst.URL # "")

\* cbt Plugin.Init: an unmarshal error, the sentinel when no instance is left
cbtInit(raw) ==
    IF ~raw.parses THEN "error"
    ELSE IF Len(cbtValidInstances(raw)) = 0 THEN "sentinel"
    ELSE "ok"

\* cbt Plugin.Validate over the instances Init kept
cbtValidate(instances) ==
    IF \E i \in 1..Len(instances) :
          \/ instances[i].Name = ""
          \/ instances[i].URL = ""
          \/ \E j \in 1..(i - 1) : instances[j].Name = instances[i].Name
    THEN "error"
    ELSE "ok"

\* Registry.InitPlugin with a validation error taken for success
registryInitPlugin_validationIgnored(initialized, name, known, parsed, validated) ==
    IF ~known THEN [err |-> "unknown plugin", initialized |-> initialized]
    ELSE IF parsed = "sentinel" THEN [err |-> "", initialized |-> initialized]
    ELSE IF parsed = "error" THEN [err |-> "initializing", initialized |-> initialized]
    ELSE IF validated = "sentinel" THEN [err |-> "", initialized |-> initialized]
    ELSE [err |-> "", initialized |-> Append(initialized, name)]

\* Registry.InitPlugin: look the plugin up, Init, ApplyDefaults, Validate, append
registryInitPlugin(initialized, name, known, parsed, validated) ==
    IF ~known THEN [err |-> "unknown plugin", initialized |-> initialized]
    ELSE IF parsed = "sentinel" THEN [err |-> "", initialized |-> initialized]
    ELSE IF parsed = "error" THEN [err |-> "initializing", initialized |-> initialized]
    ELSE IF validated = "sentinel" THEN [err |-> "", initialized |-> initialized]
    ELSE IF validated = "error" THEN [err |-> "validating", initialized |-> initialized]
    ELSE [err |-> "", initialized |-> Append(initialized, name)]

\* whether the Start, or the Stop, of the named plugin fails
startFails(mocks, name) == name \in MockNames /\ mocks[name].startFails

stopFails(mocks, name) == name \in MockNames /\ mocks[name].stopFails

RECURSIVE registryStartAllFrom(_, _, _, _)
\* the loop of Registry.StartAll from index i on, with the plugins started so far
registryStartAllFrom(initialized, mocks, i, calls) ==
    IF i > Len(initialized) THEN [err |-> "", calls |-> calls]
    ELSE IF startFails(mocks, initialized[i])
         THEN [err |-> "starting", calls |-> Append(calls, initialized[i])]
         ELSE registryStartAllFrom(initialized, mocks, i + 1, Append(calls, initialized[i]))

\* Registry.StartAll: the plugins whose Start was called, and the error returned
registryStartAll(initialized, mocks) == registryStartAllFrom(initialized, mocks, 1, <<>>)

\* Registry.StopAll walking the list forward
registryStopAll_forward(initialized, mocks) ==
    [err |-> "", calls |-> initialized]

\* Registry.StopAll: Stop is called on every plugin, last initialized first
registryStopAll(initialized, mocks) ==
    [err |-> "",
     calls |-> [k \in 1..Len(initialized) |-> initialized[Len(initialized) + 1 - k]]]

InitReg ==
    /\ regRestIdle
    /\ regMocks \in [MockNames -> [startFails : BOOLEAN, stopFails : BOOLEAN]]
    /\ regInit = <<>>
    /\ regLast = NoRegCall

\* InitPlugin on one of the other registered plugins, or on a name never added
InitPluginMock ==
    /\ Len(regInit) < MaxInit
    /\ \E name \in MockNames \cup {UnknownPlugin}, validated \in PluginResults :
          LET known == name \in RegisteredNames
              r == registryInitPlugin(regInit, name, known, "ok", validated)
          IN /\ regInit' = r.initialized
             /\ regLast' = [op |-> "init", name |-> name, known |-> known,
                            parsed |-> IF known THEN "ok" ELSE "",
                            validated |-> IF known THEN validated ELSE "",
                            err |-> r.err, before |-> regInit, calls |-> <<>>]
    /\ UNCHANGED <<regMocks, regRest>>

\* InitPlugin("cbt", rawYAML)
InitPluginCbt ==
    /\ Len(regInit) < MaxInit
    /\ \E raw \in CbtRawConfigs :
          LET parsed == cbtInit(raw)
              validated == IF parsed = "ok" THEN cbtValidate(cbtValidInstances(raw)) ELSE ""
              r == registryInitPlugin(regInit, "cbt", TRUE, parsed, validated)
          IN /\ regInit' = r.initialized
             /\ regLast' = [op |-> "init", name |-> "cbt", known |-> TRUE,
                            parsed |-> parsed, validated |-> validated,
                            err |-> r.err, before |-> regInit, calls |-> <<>>]
    /\ UNCHANGED <<regMocks, regRest>>

\* Registry.StartAll
RegStartAll ==
    /\ LET r == registryStartAll(regInit, regMocks)
       IN regLast' = [NoRegCall EXCEPT !.op = "startAll", !.err = r.err,
                                       !.before = regInit, !.calls = r.calls]
    /\ UNCHANGED <<regMocks, regInit, regRest>>

\* Registry.StopAll
RegStopAll ==
    /\ LET r == registryStopAll(regInit, regMocks)
       IN regLast' = [NoRegCall EXCEPT !.op = "stopAll", !.err = r.err,
                                       !.before = regInit, !.calls = r.calls]
    /\ UNCHANGED <<regMocks, regInit, regRest>>

NextReg == InitPluginMock \/ InitPluginCbt \/ RegStartAll \/ RegStopAll

SpecReg == InitReg /\ [][NextReg]_vars

\* the last InitPlugin appended its plugin to the initialized list
Appended == regInit = Append(regLast.before, regLast.name)

\* C26: InitPlugin appends the plugin exactly when the name is registered and its
\* Init and Validate both succeed; an unknown name or a failed validation returns
\* an error and appends nothing; the ErrNoValidConfig sentinel returns no error
\* and appends nothing.
C26_InitPluginAppends ==
    regLast.op = "init" =>
        /\ Appended <=> (regLast.known /\ regLast.parsed = "ok" /\ regLast.validated = "ok")
        /\ ~Appended => regInit = regLast.before
        /\ (~regLast.known \/ regLast.validated = "error") =>
               (regLast.err # "" /\ regInit = regLast.before)
        /\ (regLast.parsed = "sentinel" \/ regLast.validated = "sentinel") =>
               (regLast.err = "" /\ regInit = regLast.before)

\* the cbt plugin failed validation on a duplicated instance name after another
\* plugin had been initialized
C26_Witness ==
    /\ regLast.op = "init"
    /\ regLast.name = "cbt"
    /\ regLast.validated = "error"
    /\ regLast.err = "validating"
    /\ Len(regInit) = 1

\* C27: StartAll calls Start in initialization order and returns at the first
\* failure without starting a later plugin; StopAll calls Stop on every
\* initialized plugin in reverse order whichever of them fail.
C27_StartStopOrder ==
    /\ regLast.op = "startAll" =>
          /\ Len(regLast.calls) <= Len(regInit)
          /\ \A k \in 1..Len(regLast.calls) : regLast.calls[k] = regInit[k]
          /\ \A k \in 1..(Len(regLast.calls) - 1) : ~startFails(regMocks, regLast.calls[k])
          /\ IF regLast.err = ""
             THEN /\ Len(regLast.calls) = Len(regInit)
                  /\ \A k \in 1..Len(regInit) : ~startFails(regMocks, regInit[k])
             ELSE /\ Len(regLast.calls) >= 1
                  /\ startFails(regMocks, regLast.calls[Len(regLast.calls)])
    /\ regLast.op = "stopAll" =>
          /\ Len(regLast.calls) = Len(regInit)
          /\ \A k \in 1..Len(regInit) : regLast.calls[k] = regInit[Len(regInit) + 1 - k]

\* StopAll went through two different plugins although the first one it stopped
\* failed to stop
C27_Witness ==
    /\ regLast.op = "stopAll"
    /\ Len(regInit) = 2
    /\ regInit[1] # regInit[2]
    /\ stopFails(regMocks, regLast.calls[1])
    /\ regLast.calls[2] = regInit[1]

\* StartAll returned at a plugin that failed to start and left a later one alone
StartAllStoppedShort ==
    /\ regLast.op = "startAll"
    /\ regLast.err # ""
    /\ Len(regLast.calls) < Len(regInit)

\* ==========================================================================
\* pkg/auth/store and pkg/proxy (remote adapter): the credentials file, the
\* store's IsAuthenticated, remoteService.EnsureAuthenticated and the
\* command's buildProxyClient.
\* ==========================================================================

\* the longest lifetime, in minutes, a token endpoint grants (expires_in)
MaxExpiresIn == 6

\* store.New: the default RefreshBuffer, in minutes
RefreshBuffer == 5

\* the clock runs until the longest-lived token comes within the refresh buffer
MaxAuthClock == MaxExpiresIn - RefreshBuffer + 1

\* the error of EnsureAuthenticated: it names the login command to run
NotAuthenticated == "not authenticated to remote proxy. Run 'mcp auth login' first"

\* store.Save: the file holds the tokens
storeSave(accessToken, refreshToken, expiresAt) ==
    [state |-> "tokens", AccessToken |-> accessToken, RefreshToken |-> refreshToken,
     ExpiresAt |-> expiresAt]

\* store.Load: no file gives no tokens and no error; a file that cannot be read
\* or is not JSON gives an error
storeLoad(file) ==
    IF file.state = "absent" THEN [tokens |-> NoFile, err |-> ""]
    ELSE IF file.state = "unreadable" THEN [tokens |-> NoFile, err |-> "reading credentials file"]
    ELSE IF file.state = "garbage" THEN [tokens |-> NoFile, err |-> "unmarshaling tokens"]
    ELSE [tokens |-> file, err |-> ""]

\* store.IsAuthenticated taking any stored tokens for valid ones
IsAuthenticated_expiryUnchecked(file, t) ==
    LET l == storeLoad(file)
    IN IF l.err # "" THEN FALSE
       ELSE IF l.tokens.state # "tokens" THEN FALSE
       ELSE TRUE

\* store.IsAuthenticated of a fresh store: load the file, compare the expiry
IsAuthenticated(file, t) ==
    LET l == storeLoad(file)
    IN IF l.err # "" THEN FALSE
       ELSE IF l.tokens.state # "tokens" THEN FALSE
       ELSE t < l.tokens.ExpiresAt

\* remoteService.EnsureAuthenticated
EnsureAuthenticated(file, t) ==
    IF IsAuthenticated(file, t) THEN "" ELSE NotAuthenticated

\* buildProxyClient: the client is started only once EnsureAuthenticated
\* returned nil
buildProxyClient(file, t, startOk) ==
    LET err == EnsureAuthenticated(file, t)
    IN IF err # "" THEN [err |-> err, client |-> "none"]
       ELSE IF ~startOk THEN [err |-> "starting proxy client", client |-> "none"]
       ELSE [err |-> "", client |-> "started"]

\* store.needsRefresh: the token expires within the buffer
needsRefresh(stored, t) == t + RefreshBuffer > stored.ExpiresAt

\* the answers of the token endpoint to a refresh: a failure, or new tokens
\* whose refresh token is absent, the one sent, or a rotated one
RefreshResponses ==
    {[ok |-> FALSE, AccessToken |-> "", RefreshToken |-> "", ExpiresIn |-> 0]}
        \cup {[ok |-> TRUE, AccessToken |-> "jwt2", RefreshToken |-> r,
               ExpiresIn |-> MaxExpiresIn] : r \in {"", "rotated"}}

\* client.Refresh: the tokens of the response, expiring ExpiresIn from now
clientRefresh(response, t) ==
    storeSave(response.AccessToken, response.RefreshToken, t + response.ExpiresIn)

\* store.getTokens: the tokens the store has cached, else those of the file
storeGetTokens(cached, file) ==
    IF cached.state = "tokens" THEN [tokens |-> cached, err |-> ""] ELSE storeLoad(file)

\* store.refresh once the token endpoint has answered: an error when it
\* refused or when the file cannot be written, otherwise the tokens of the
\* response, saved
storeRefresh(response, t, saveOk) ==
    IF ~response.ok THEN [err |-> "refreshing token", tokens |-> NoFile]
    ELSE IF ~saveOk THEN [err |-> "writing credentials file", tokens |-> NoFile]
    ELSE [err |-> "", tokens |-> clientRefresh(response, t)]

\* store.GetAccessToken as far as the request to the token endpoint: the
\* token of the store when it is not about to expire, an error without
\* tokens or without a refresh token; asks: the refresh request is sent
storeGetAccessToken(cached, file, t) ==
    LET l == storeGetTokens(cached, file)
    IN IF l.err # "" THEN [token |-> "", err |-> "loading tokens", asks |-> FALSE]
       ELSE IF l.tokens.state # "tokens"
       THEN [token |-> "", err |-> "not authenticated", asks |-> FALSE]
       ELSE IF ~needsRefresh(l.tokens, t)
       THEN [token |-> l.tokens.AccessToken, err |-> "", asks |-> FALSE]
       ELSE IF l.tokens.RefreshToken = ""
       THEN [token |-> "", err |-> "refreshing token", asks |-> FALSE]
       ELSE [token |-> "", err |-> "", asks |-> TRUE]

\* store.GetAccessToken once store.refresh has returned
storeGetAccessTokenRefreshed(r) ==
    IF r.err # "" THEN [token |-> "", err |-> "refreshing token", asks |-> FALSE]
    ELSE [token |-> r.tokens.AccessToken, err |-> "", asks |-> FALSE]

\* remoteService.RegisterToken: the access token, "" when the store gives none
remoteRegisterToken(got) == IF got.err # "" THEN "" ELSE got.token

InitAuth ==
    /\ auRestIdle
    /\ auFile = NoFile
    /\ auNow = 0
    /\ auLast = NoBuild
    /\ auRun = NoAuthRun

\* the lifetimes the token endpoint gives at a login: none, the shortest, the
\* refresh buffer and the longest
LoginExpiresIn == {0, 1, RefreshBuffer, MaxExpiresIn}

\* mcp auth login: the tokens of the token endpoint are saved
AuthLogin ==
    /\ \E expiresIn \in LoginExpiresIn, refreshToken \in {"", "refresh"} :
          auFile' = storeSave("jwt", refreshToken, auNow + expiresIn)
    /\ UNCHANGED <<auNow, auLast, auRun, auRest>>

\* mcp auth logout: store.Clear removes the file
AuthLogout ==
    /\ auFile.state # "absent"
    /\ auFile' = NoFile
    /\ UNCHANGED <<auNow, auLast, auRun, auRest>>

\* the file is made unreadable, or overwritten with something that is not JSON
AuthFileDamaged ==
    /\ auFile.state # "absent"
    /\ \E state \in {"unreadable", "garbage"} :
          auFile' = [NoFile EXCEPT !.state = state]
    /\ UNCHANGED <<auNow, auLast, auRun, auRest>>

\* a command builds its proxy client
AuthBuildProxyClient ==
    /\ \E startOk \in BOOLEAN :
          LET r == buildProxyClient(auFile, auNow, startOk)
          IN auLast' = [NoBuild EXCEPT !.op = "build", !.file = auFile, !.at = auNow,
                                       !.err = r.err, !.client = r.client]
    /\ UNCHANGED <<auFile, auNow, auRun, auRest>>

\* the run command: buildProxyClient.  The store of the command loads the
\* file and keeps the tokens it found; auLast is kept for the command that
\* has ended, so it is cleared while this one goes on
AuthRunBuild ==
    /\ auRun.pc = "idle"
    /\ \E startOk \in BOOLEAN :
          LET b == buildProxyClient(auFile, auNow, startOk)
          IN IF b.err # ""
             THEN /\ auLast' = [NoBuild EXCEPT !.op = "run", !.file = auFile, !.at = auNow,
                                               !.err = b.err, !.client = b.client]
                  /\ UNCHANGED auRun
             ELSE /\ auRun' = [NoAuthRun EXCEPT !.pc = "built",
                                                !.cached = storeLoad(auFile).tokens,
                                                !.at = auNow]
                  /\ auLast' = NoBuild
    /\ UNCHANGED <<auFile, auNow, auRest>>

\* the run command from the plugin registry to RegisterToken: when the
\* registry, the sandbox or the environment cannot be built it returns;
\* otherwise GetAccessToken answers from the tokens the store has cached, or
\* sends the refresh request; with the token in the environment Execute is
\* called
AuthRunRegisterToken ==
    /\ auRun.pc = "built"
    /\ \E setupOk \in BOOLEAN :
          LET got == storeGetAccessToken(auRun.cached, auFile, auNow)
              ended == [NoBuild EXCEPT !.op = "run", !.file = auRun.cached, !.at = auRun.at,
                                       !.client = "started"]
          IN IF ~setupOk
             THEN /\ auLast' = [ended EXCEPT !.err = "building"]
                  /\ auRun' = NoAuthRun
             ELSE IF got.asks
             THEN /\ auRun' = [auRun EXCEPT !.pc = "refreshing", !.asked = auNow]
                  /\ UNCHANGED auLast
             ELSE /\ auLast' = [ended EXCEPT !.token = remoteRegisterToken(got),
                                             !.executed = TRUE, !.tokenAt = auNow]
                  /\ auRun' = NoAuthRun
    /\ UNCHANGED <<auFile, auNow, auRest>>

\* the token endpoint has answered the refresh request of the run command:
\* the new tokens are written to the file, whatever has become of it, and
\* Execute is called
AuthRunRefreshed ==
    /\ auRun.pc = "refreshing"
    /\ \E response \in RefreshResponses, saveOk \in BOOLEAN :
          LET r == storeRefresh(response, auNow, saveOk)
              got == storeGetAccessTokenRefreshed(r)
          IN /\ auFile' = IF r.err = "" THEN r.tokens ELSE auFile
             /\ auLast' = [NoBuild EXCEPT !.op = "run", !.file = auRun.cached, !.at = auRun.at,
                                          !.client = "started",
                                          !.token = remoteRegisterToken(got),
                                          !.executed = TRUE, !.tokenAt = auRun.asked]
    /\ auRun' = NoAuthRun
    /\ UNCHANGED <<auNow, auRest>>

AuthTick ==
    /\ auNow < MaxAuthClock
    /\ auNow' = auNow + 1
    /\ UNCHANGED <<auFile, auLast, auRun, auRest>>

NextAuth ==
    \/ AuthLogin
    \/ AuthLogout
    \/ AuthFileDamaged
    \/ AuthBuildProxyClient
    \/ AuthRunBuild
    \/ AuthRunRegisterToken
    \/ AuthRunRefreshed
    \/ AuthTick

SpecAuth == InitAuth /\ [][NextAuth]_vars

\* at the last build the file held tokens whose expiry was still ahead
StoredTokenValid ==
    /\ auLast.file.state = "tokens"
    /\ auLast.file.AccessToken # ""
    /\ auLast.at < auLast.file.ExpiresAt

\* C28: EnsureAuthenticated returns nil exactly when the credentials file holds
\* an access token that has not expired; otherwise buildProxyClient returns the
\* error that names the login command and no proxy client is started.
C28_EnsureAuthenticated ==
    auLast.op = "build" =>
        /\ (auLast.err # NotAuthenticated) <=> StoredTokenValid
        /\ ~StoredTokenValid => (auLast.err = NotAuthenticated /\ auLast.client = "none")
        /\ auLast.client = "started" => (StoredTokenValid /\ auLast.err = "")

\* a build was refused because the stored token had expired
C28_Witness ==
    /\ auLast.op = "build"
    /\ auLast.file.state = "tokens"
    /\ auLast.at >= auLast.file.ExpiresAt
    /\ auLast.err = NotAuthenticated
    /\ auLast.client = "none"

\* ==========================================================================
\* cmd: the exit status of the run command.  runRun returns an error, returns
\* nil or calls os.Exit; cmd.Execute turns a returned error into the status.
\* ==========================================================================

\* the largest exit code of the sandbox child
MaxExitCode == 3

ChildExitCodes == 0..MaxExitCode

\* which of the steps before Execute fails: none, loading the config, building
\* the proxy client, the plugin registry, the sandbox service, the environment
SetupOutcomes == {"ok", "config", "proxy", "registry", "sandbox", "env"}

RunFlags ==
    [code : BOOLEAN, file : BOOLEAN, fileReadable : BOOLEAN, json : BOOLEAN,
     isTerminal : BOOLEAN, setup : SetupOutcomes]

\* the error runRun returns before it calls sandboxSvc.Execute, "" when none
runSetupError(f) ==
    IF ~f.code /\ ~f.file THEN "either --code or --file is required"
    ELSE IF f.code /\ f.file THEN "--code and --file are mutually exclusive"
    ELSE IF f.file /\ ~f.fileReadable THEN "reading file"
    ELSE IF f.setup = "config" THEN "loading config"
    ELSE IF f.setup = "proxy" THEN "not authenticated"
    ELSE IF f.setup = "registry" THEN "building plugin registry"
    ELSE IF f.setup = "sandbox" THEN "building sandbox service"
    ELSE IF f.setup = "env" THEN "building sandbox environment"
    ELSE ""

\* runRun: how it leaves: a returned error, a nil return, or os.Exit(code)
runRunOutcome(f, execErr, ExitCode) ==
    IF runSetupError(f) # "" THEN [how |-> "error", err |-> runSetupError(f), code |-> 0]
    ELSE IF execErr THEN [how |-> "error", err |-> "execution error", code |-> 0]
    ELSE IF f.json \/ ~f.isTerminal THEN [how |-> "return", err |-> "", code |-> 0]
    ELSE IF ExitCode # 0 THEN [how |-> "exit", err |-> "", code |-> ExitCode]
    ELSE [how |-> "return", err |-> "", code |-> 0]

\* cmd.Execute: the status of the process; runRun returns no ExitCodeError, so
\* a returned error is status 1
processStatus(outcome) ==
    IF outcome.how = "exit" THEN outcome.code
    ELSE IF outcome.how = "error" THEN 1
    ELSE 0

InitExit == xsRestIdle /\ xsLast = NoInvocation

\* an invocation that ends before the sandbox is asked to execute
RunRejected ==
    /\ \E f \in RunFlags :
          /\ runSetupError(f) # ""
          /\ LET o == runRunOutcome(f, FALSE, 0)
             IN xsLast' = [op |-> "run", code |-> f.code, file |-> f.file,
                           fileReadable |-> f.fileReadable, json |-> f.json,
                           isTerminal |-> f.isTerminal, setup |-> f.setup,
                           executed |-> FALSE, execErr |-> FALSE, ExitCode |-> 0,
                           err |-> o.err, status |-> processStatus(o)]
    /\ UNCHANGED xsRest

\* an invocation that reaches sandboxSvc.Execute
RunExecuted ==
    /\ \E f \in RunFlags, execErr \in BOOLEAN, ExitCode \in ChildExitCodes :
          /\ runSetupError(f) = ""
          /\ execErr => ExitCode = 0
          /\ LET o == runRunOutcome(f, execErr, ExitCode)
             IN xsLast' = [op |-> "run", code |-> f.code, file |-> f.file,
                           fileReadable |-> f.fileReadable, json |-> f.json,
                           isTerminal |-> f.isTerminal, setup |-> f.setup,
                           executed |-> TRUE, execErr |-> execErr, ExitCode |-> ExitCode,
                           err |-> o.err, status |-> processStatus(o)]
    /\ UNCHANGED xsRest

NextExit == RunRejected \/ RunExecuted

SpecExit == InitExit /\ [][NextExit]_vars

\* the sandbox ran the code and handed back a result
ChildRan == xsLast.op = "run" /\ xsLast.executed /\ ~xsLast.execErr

\* C29: the exit status of the run command is 0 when the child exits with 0,
\* the child's exit code when that is not 0, whichever the output mode, and not
\* 0 when the command fails on its flags or configuration.
C29_ExitStatusPropagated ==
    /\ (ChildRan /\ xsLast.ExitCode = 0) => xsLast.status = 0
    /\ (ChildRan /\ xsLast.ExitCode # 0) => xsLast.status = xsLast.ExitCode
    /\ (xsLast.op = "run" /\ ~xsLast.executed) => xsLast.status # 0

\* the output went to the terminal in the human-readable form
HumanOutput == xsLast.isTerminal /\ ~xsLast.json

\* what the code does: the child's exit code is the status in the
\* human-readable mode; in the JSON mode the code is a field of the output and
\* the status is 0
ExitStatusByMode ==
    /\ (ChildRan /\ HumanOutput) => xsLast.status = xsLast.ExitCode
    /\ (ChildRan /\ ~HumanOutput) => xsLast.status = 0
    /\ (xsLast.op = "run" /\ (~xsLast.executed \/ xsLast.execErr)) => xsLast.status = 1

\* the child failed and the JSON output was printed
JsonRunOfFailingChild ==
    /\ ChildRan
    /\ xsLast.ExitCode # 0
    /\ xsLast.json
    /\ xsLast.status = 0

\* ==========================================================================
\* pkg/proxy: the headers RateLimiter.Middleware leaves on the response of an
\* authenticated route (SpecProxy).
\* ==========================================================================

RateLimitHeaders == {"X-RateLimit-Limit", "X-RateLimit-Remaining", "X-RateLimit-Reset"}

\* the response of a request the rate limiter consulted its bucket for and let
\* through to the handler
AllowedByLimiter ==
    /\ Returning
    /\ proxyCfg.RateLimiting.Enabled
    /\ ctxUser # 0
    /\ "ratelimit" \in Range(trace)
    /\ "handler" \in Range(trace)

\* C30: with rate limiting enabled the response of an allowed request carries
\* X-RateLimit-Limit, X-RateLimit-Remaining and X-RateLimit-Reset, and a
\* request the limiter denies is answered 429 with those three headers and
\* Retry-After.
C30_RateLimitHeaders ==
    /\ AllowedByLimiter => RateLimitHeaders \subseteq DOMAIN resp.headers
    /\ RejectedBy("ratelimit") =>
          /\ resp.status = 429
          /\ (RateLimitHeaders \cup {"Retry-After"}) \subseteq DOMAIN resp.headers

\* what the code does: the middleware sets no header on a request it allows,
\* and answers a denied one 429 with Retry-After: 60 alone
RetryAfterOnly ==
    /\ AllowedByLimiter => resp.headers = EmptyEnv
    /\ RejectedBy("ratelimit") => resp = rateLimitExceeded

\* an authenticated request went through the limiter to the handler
AllowedWithoutHeaders == AllowedByLimiter /\ resp.status = 200 /\ resp.headers = EmptyEnv

\* ==========================================================================
\* pkg/config and pkg/tool: the execution timeout of execute_python, from the
\* configuration file through the defaults and Config.Validate to the
\* handler's own range check.
\* ==========================================================================

\* the value applyDefaults gives sandbox.timeout when the file leaves it out
DefaultSandboxTimeout == 60

\* config.MaxSandboxTimeout
MaxSandboxTimeout == 600

\* the values of sandbox.timeout in the file (0: not set) and of the timeout
\* argument of a call: around every limit the code or the claim names
TimeoutEdges == {MinTimeout, DefaultSandboxTimeout, MaxTimeout, MaxSandboxTimeout}

ConfiguredTimeouts == {0} \cup {e + d : e \in TimeoutEdges, d \in {0 - 1, 0, 1}}

AskedTimeouts == {e + d : e \in TimeoutEdges, d \in {0 - 1, 0, 1}}

\* applyDefaults: a timeout of 0 becomes 60
sandboxTimeoutDefault(configured) ==
    IF configured = 0 THEN DefaultSandboxTimeout ELSE configured

\* Config.Validate: only the upper limit is checked
configValidateTimeout(timeout) ==
    IF timeout > MaxSandboxTimeout THEN "sandbox.timeout cannot exceed 600 seconds" ELSE ""

\* request.GetInt("timeout", cfg.Sandbox.Timeout)
requestTimeout(given, asked, cfgTimeout) == IF given THEN asked ELSE cfgTimeout

\* the handler's range check
checkTimeout(timeout) ==
    IF timeout < MinTimeout \/ timeout > MaxTimeout
    THEN "timeout must be between 1 and 300 seconds" ELSE ""

InitTimeout == toRestIdle /\ toLast = NoTimeoutCall

\* the server loads a configuration that Validate refuses: no tool is served
TimeoutConfigRefused ==
    /\ \E configured \in ConfiguredTimeouts :
          /\ configValidateTimeout(sandboxTimeoutDefault(configured)) # ""
          /\ toLast' = [NoTimeoutCall EXCEPT
                            !.op = "load", !.configured = configured,
                            !.err = configValidateTimeout(sandboxTimeoutDefault(configured))]
    /\ UNCHANGED toRest

\* a call of execute_python under a configuration that was accepted
TimeoutToolCall ==
    /\ \E configured \in ConfiguredTimeouts, given \in BOOLEAN, asked \in AskedTimeouts :
          LET cfgTimeout == sandboxTimeoutDefault(configured)
              t == requestTimeout(given, asked, cfgTimeout)
          IN /\ configValidateTimeout(cfgTimeout) = ""
             /\ toLast' = [op |-> "call", configured |-> configured, given |-> given,
                           asked |-> IF given THEN asked ELSE 0,
                           timeout |-> t, err |-> checkTimeout(t)]
    /\ UNCHANGED toRest

NextTimeout == TimeoutConfigRefused \/ TimeoutToolCall

SpecTimeout == InitTimeout /\ [][NextTimeout]_vars

\* C31: a call that gives no timeout under a configuration that sets none runs
\* with 60 seconds, and a call is accepted exactly when its timeout, given or
\* taken from the configuration, is between 1 and 600 seconds.
C31_TimeoutRange ==
    toLast.op = "call" =>
        /\ (~toLast.given /\ toLast.configured = 0) => toLast.timeout = 60
        /\ toLast.err = "" <=> (1 <= toLast.timeout /\ toLast.timeout <= 600)

\* what the code does: the handler accepts 1 to 300 seconds, whatever the
\* configuration allows
TimeoutRangeOfHandler ==
    toLast.op = "call" =>
        /\ (~toLast.given /\ toLast.configured = 0) => toLast.timeout = 60
        /\ toLast.err = "" <=> (1 <= toLast.timeout /\ toLast.timeout <= 300)

\* a configured default of 600 seconds, accepted by Validate, fails every call
\* that gives no timeout of its own
ConfiguredMaximumRefused ==
    /\ toLast.op = "call"
    /\ ~toLast.given
    /\ toLast.configured = 600
    /\ toLast.err # ""

\* ==========================================================================
\* pkg/middleware: concurrent Allow calls on one key and the janitor (SpecRL).
\* ==========================================================================

\* what one token bucket can give in the minutes t1..t2: what it holds at most
\* at t1 and what it gains until t2
OneBucketBound ==
    \A t1, t2 \in 0..now :
        t1 <= t2 =>
            TokenScale * AllowedIn(allowedAt, t1, t2)
                <= TokenScale * GetBurstSize(rule) + GetRequestsPerSecond(rule) * (t2 - t1)

\* no entry can have been removed yet: nothing is stale before the interval
\* has passed
BeforeFirstRemoval == now <= defaultCleanupInterval

\* callers that raced on the first request of the key all hold the entry of
\* the map
RacingCallsShareOneEntry ==
    BeforeFirstRemoval =>
        \A c \in Callers : callerEntry[c] # 0 => callerEntry[c] = imlLimiters

\* a removal leaves the entry of a call in flight as it was
RemovalSparesInFlight ==
    (imlLimiters # 0 /\ imlLimiters' = 0) =>
        \A c \in Callers :
            callerEntry[c] # 0 => entries'[callerEntry[c]] = entries[callerEntry[c]]

\* C32: whatever the interleaving of the Allow calls on a key and of the
\* janitor, the calls are decided as by one token bucket: what they allow in
\* any window is what one bucket can give, the callers racing on the first
\* request share one entry, and a removal by the janitor leaves the bucket of
\* a call in flight untouched.
C32_OneBucketPerKey ==
    /\ [](OneBucketBound /\ RacingCallsShareOneEntry)
    /\ [][RemovalSparesInFlight]_vars

\* what the code does: until the first removal the calls are decided by one
\* bucket, and later removals spare the calls in flight
OneBucketUntilRemoval ==
    /\ []((BeforeFirstRemoval => OneBucketBound) /\ RacingCallsShareOneEntry)
    /\ [][RemovalSparesInFlight]_vars

\* the janitor has removed the key's entry while a call held it, and the map
\* has a new entry since: two buckets decide for the key
TwoBucketsForOneKey ==
    \E c \in Callers :
        /\ callerEntry[c] # 0
        /\ imlLimiters # 0
        /\ callerEntry[c] # imlLimiters

\* ==========================================================================
\* pkg/proxy: the background loops across Start and Stop (SpecLife).
\* ==========================================================================

\* no refresh loop and no cleanup loop is running
NoLoopRunning == lcSvc.loops = 0 /\ ~lcSvc.rlLoop

\* C33: the proxy's background loops (JWKS refresher, rate-limiter cleanup)
\* are halted by Stop: once a Stop call has returned, whatever Start and Stop
\* calls came before it, Start calls that failed at the socket bind included,
\* every loop exits, unless Start is called again.
C33_StopHaltsEveryLoop ==
    lcLast.op = "stop" ~> (NoLoopRunning \/ lcLast.op = "start")

\* Stop has returned nil on a proxy whose Start failed at the bind, and the
\* refresh loop that Start left behind runs with its stop channel open
LoopLeftByFailedStart ==
    /\ lcLast.op = "stop"
    /\ ~lcLast.before.started
    /\ lcSvc.loops > 0
    /\ ~lcSvc.stopCh

\* the JWKS refresher is alive: a refresh loop runs and has not been told to stop
RefresherAlive == lcSvc.loops > 0 /\ ~lcSvc.stopCh

\* C34: in every state reached by Start and Stop calls, a proxy that is
\* started in JWT mode has its JWKS refresher alive.
C34_StartedHasRefresher ==
    (lcMode = "jwt" /\ lcSvc.started) => RefresherAlive

\* what the code does: a started JWT proxy has a refresh loop as long as no
\* Stop has closed the validator's stop channel, which is never opened again
RefresherWhileChannelOpen ==
    (lcMode = "jwt" /\ lcSvc.started /\ ~lcSvc.stopCh) => lcSvc.loops > 0

\* Stop failed at the HTTP shutdown: the proxy is still started and its
\* refresher has been stopped
StartedWithoutRefresher ==
    /\ lcMode = "jwt"
    /\ lcSvc.started
    /\ lcLast.op = "stop"
    /\ lcLast.err # ""
    /\ lcSvc.stopCh

\* ==========================================================================
\* pkg/proxy: admission control of the authenticated requests (SpecProxy).
\* ==========================================================================

\* C35: with rate limiting enabled, every request that has passed the
\* authentication and reached the upstream handler was checked against the
\* bucket of its authenticated identity and took a token from it.
C35_NoRequestUnchecked ==
    (proxyCfg.RateLimiting.Enabled /\ "handler" \in Range(trace)) =>
        /\ "ratelimit" \in Range(trace)
        /\ ctxUser # 0
        /\ reqTook = 1

\* what the code does: the requests that carry a user id are checked and take
\* a token; a request authenticated without one passes the limiter untouched
CheckedWhenIdentified ==
    (proxyCfg.RateLimiting.Enabled /\ "handler" \in Range(trace)) =>
        /\ "ratelimit" \in Range(trace)
        /\ reqTook = (IF ctxUser # 0 THEN 1 ELSE 0)

\* a JWT without a subject was accepted and its request reached the handler
\* without any bucket being consulted
UncheckedRequestServed ==
    /\ proxyCfg.Mode = "jwt"
    /\ proxyCfg.RateLimiting.Enabled
    /\ "handler" \in Range(trace)
    /\ ctxUser = 0
    /\ reqTook = 0
    /\ limiters = EmptyEnv

\* ==========================================================================
\* cmd and pkg/proxy (remote adapter): the proxy token of a run (SpecAuth).
\* ==========================================================================

\* C36: no sandbox execution is started with an empty proxy token: when no
\* token can be obtained for the execution, the run fails before Execute is
\* called.
C36_NoExecutionWithoutToken ==
    (auLast.op = "run" /\ auLast.executed) => auLast.token # ""

\* what the code does: Execute is called whenever the client and the sandbox
\* were built, and the token is empty exactly when the stored token had to be
\* refreshed and could not be
EmptyTokenWhenRefreshFails ==
    (auLast.op = "run" /\ auLast.executed) =>
        /\ auLast.file.state = "tokens"
        /\ auLast.at < auLast.file.ExpiresAt
        /\ auLast.at <= auLast.tokenAt
        /\ auLast.token = "" => needsRefresh(auLast.file, auLast.tokenAt)
        /\ ~needsRefresh(auLast.file, auLast.tokenAt) => auLast.token = auLast.file.AccessToken

\* the stored token was still valid but within the refresh buffer, there was
\* no refresh token, and the code was executed with an empty proxy token
ExecutedWithEmptyToken ==
    /\ auLast.op = "run"
    /\ auLast.executed
    /\ auLast.token = ""
    /\ auLast.file.RefreshToken = ""
    /\ auLast.at < auLast.file.ExpiresAt

\* the user logged out while the run waited for the token endpoint; the
\* answer of the endpoint will be written to the file that was removed
LogoutDuringRefresh ==
    auRun.pc = "refreshing" /\ auRun.cached.state = "tokens" /\ auFile.state = "absent"

\* the token was valid when buildProxyClient checked it and was refreshed
\* when RegisterToken read the clock again: the file holds the new tokens,
\* their expiry counted from the answer of the token endpoint
RefreshedLaterThanChecked ==
    /\ auLast.op = "run"
    /\ auLast.executed
    /\ auLast.at = 0
    /\ auLast.tokenAt = 1
    /\ auLast.file.ExpiresAt = 1
    /\ auLast.token = "jwt2"
    /\ auFile.AccessToken = "jwt2"
    /\ auFile.ExpiresAt = 1 + MaxExpiresIn

\* ==========================================================================
\* pkg/proxy: the key map of a started validator (SpecJwks).
\* ==========================================================================

\* the last fetch brought a document without a usable signing RSA key
FetchedNoUsableKey ==
    jsLast.outcome = "ok" /\ jsLatest.got /\ jsLatest.usable = {}

\* C37: once the validator's Start has succeeded its key map is never empty:
\* a JWKS document without a usable RSA signing key counts as a failed fetch,
\* so Start fails on it and a background refresh keeps the previous map.
C37_KeyMapNeverEmpty ==
    /\ valPhase = "started" => keys # {}
    /\ FetchedNoUsableKey => (valPhase # "started" \/ keys = jsLast.before)

\* what the code does: a document that decodes replaces the map by its usable
\* keys, none included, and only a fetch that fails keeps the previous map
EmptyDocumentEmptiesMap ==
    /\ FetchedNoUsableKey => keys = {}
    /\ (jsLast.outcome \notin {"none", "ok"}) => keys = jsLast.before

\* the validator is started, held keys, and a refresh has emptied its map
StartedWithEmptyMap ==
    /\ valPhase = "started"
    /\ svStarted
    /\ jsLast.before # {}
    /\ keys = {}

(***************************************************************************)
(* cmd/mcp/cmd/datasources_cmd.go: one user's limiter of the proxy, with   *)
(* Allow in its two steps and the cleanup between them.  Allow is          *)
(* rl.getLimiter(userID).Allow(): getLimiter returns the bucket after      *)
(* releasing the lock of the map, and the bucket is then used under its    *)
(* own lock.  Beside the program runs the same sequence of calls against a *)
(* bucket that is never removed.                                           *)
(***************************************************************************)

\* the clock stops once a spent bucket of the largest burst has refilled
MaxLimiterClock == MaxBurst + 1

LimiterConfigs ==
    [Enabled : {TRUE}, RequestsPerMinute : {1}, BurstSize : 1..MaxBurst]

\* the buckets some caller still holds
HeldBuckets(pc, held) == {held[c] : c \in {x \in Callers : pc[x] = "holding"}}

\* the address rate.NewLimiter returns: one nothing refers to
NewBucketId(map, pc, held) ==
    CHOOSE i \in EntryIds :
        /\ i \notin HeldBuckets(pc, held) \cup {map}
        /\ \A j \in EntryIds : j < i => j \in HeldBuckets(pc, held) \cup {map}

\* a bucket nothing refers to any more is collected
Collected(buckets, map, pc, held) ==
    [i \in EntryIds |->
        IF i \in HeldBuckets(pc, held) \cup {map} THEN buckets[i] ELSE NoBucket]

InitLimiter ==
    /\ plRestIdle
    /\ plCfg \in LimiterConfigs
    /\ plMap = 0
    /\ plBuckets = [i \in EntryIds |-> NoBucket]
    /\ plPc = [c \in Callers |-> "idle"]
    /\ plHeld = [c \in Callers |-> 0]
    /\ plRef = NoReference
    /\ plNow = 0
    /\ plRaced = FALSE
    /\ plLast = NoDecision

\* RateLimiter.getLimiter: the bucket of the map, or a new full one put there
LimiterGet(c) ==
    /\ plPc[c] = "idle"
    /\ LET id == IF plMap # 0 THEN plMap ELSE NewBucketId(plMap, plPc, plHeld)
       IN  /\ plMap' = id
           /\ plBuckets' = IF plMap # 0 THEN plBuckets
                           ELSE [plBuckets EXCEPT
                                    ![id] = [tokens |-> plCfg.BurstSize, last |-> plNow]]
           /\ plHeld' = [plHeld EXCEPT ![c] = id]
    /\ plPc' = [plPc EXCEPT ![c] = "holding"]
    /\ plRef' = IF plRef.made THEN plRef
                ELSE [made |-> TRUE, tokens |-> plCfg.BurstSize, last |-> plNow]
    /\ UNCHANGED <<plCfg, plNow, plRaced, plLast>>
    /\ UNCHANGED plRest

\* rate.Limiter.Allow on the bucket getLimiter returned
LimiterTake(c) ==
    /\ plPc[c] = "holding"
    /\ LET id  == plHeld[c]
           pc  == [plPc EXCEPT ![c] = "idle"]
           ref == [tokens |-> plRef.tokens, last |-> plRef.last]
           after == LimiterAfterAllow(plCfg, ref, plNow)
       IN  /\ plLast' = [op |-> "allow",
                         allowed |-> LimiterAllow(plCfg, plBuckets[id], plNow),
                         reference |-> LimiterAllow(plCfg, ref, plNow),
                         full |-> FALSE]
           /\ plPc' = pc
           /\ plHeld' = [plHeld EXCEPT ![c] = 0]
           /\ plBuckets' = Collected([plBuckets EXCEPT
                                         ![id] = LimiterAfterAllow(plCfg, plBuckets[id], plNow)],
                                     plMap, pc, plHeld')
           /\ plRef' = [made |-> TRUE, tokens |-> after.tokens, last |-> after.last]
    /\ UNCHANGED <<plCfg, plMap, plNow, plRaced>>
    /\ UNCHANGED plRest

\* RateLimiter.cleanup, under the lock of the map
LimiterCleanup ==
    /\ plMap # 0
    /\ LET full == LimiterTokens(plCfg, plBuckets[plMap], plNow) >= plCfg.BurstSize
       IN  /\ plMap' = IF full THEN 0 ELSE plMap
           /\ plBuckets' = Collected(plBuckets, plMap', plPc, plHeld)
           /\ plRaced' = (plRaced \/ (full /\ plMap \in HeldBuckets(plPc, plHeld)))
           /\ plLast' = [op |-> IF full THEN "removed" ELSE "kept",
                         allowed |-> FALSE, reference |-> FALSE, full |-> full]
    /\ UNCHANGED <<plCfg, plPc, plHeld, plRef, plNow>>
    /\ UNCHANGED plRest

\* a minute passes
LimiterTick ==
    /\ plNow < MaxLimiterClock
    /\ plNow' = plNow + 1
    /\ UNCHANGED <<plCfg, plMap, plBuckets, plPc, plHeld, plRef, plRaced, plLast>>
    /\ UNCHANGED plRest

NextLimiter ==
    \/ \E c \in Callers : LimiterGet(c)
    \/ \E c \in Callers : LimiterTake(c)
    \/ LimiterCleanup
    \/ LimiterTick

SpecLimiter == InitLimiter /\ [][NextLimiter]_vars

\* C38: the cleanup removes a bucket only when it is back at full burst, and
\* every Allow call then answers as it answers in the run in which no bucket
\* is ever removed, however the calls and the cleanup interleave.
C38_CleanupInvisible ==
    /\ plLast.op = "removed" => plLast.full
    /\ plLast.op = "allow" => plLast.allowed = plLast.reference

\* what the code does: only full buckets are removed, and the answers agree
\* with the run without cleanup as long as no bucket was removed between the
\* getLimiter and the Allow of a call
CleanupInvisibleUnlessHeld ==
    /\ plLast.op = "removed" => plLast.full
    /\ (plLast.op = "allow" /\ ~plRaced) => plLast.allowed = plLast.reference

\* a call is let through that the run without cleanup refuses
AllowedAfterRacingRemoval ==
    /\ plRaced /\ plLast.op = "allow" /\ plLast.allowed /\ ~plLast.reference

(***************************************************************************)
(* pkg/middleware/ratelimit.go: inMemoryLimiter.Close, which                *)
(* RateLimiter.Close calls.  Close is close(iml.stopCh) and then, under    *)
(* the lock, a new empty map; nothing records that the channel has been    *)
(* closed.  Closing a closed channel panics, and the panic ends the        *)
(* process.  Allow runs beside it in the steps between which it releases   *)
(* the lock: the lookup, the touch or the creation, and the use of the     *)
(* bucket.                                                                 *)
(***************************************************************************)

CloseRules ==
    {r \in RateLimitRules :
        r.RequestsPerSecond = 1 /\ r.RequestsPerMinute = 0 /\ r.BurstSize > 0}

InitClose ==
    /\ clRestIdle
    /\ clRule \in CloseRules
    /\ clStopCh = "open"
    /\ clLoop = "running"
    /\ clMap = 0
    /\ clEntries = [e \in EntryIds |-> NoEntry]
    /\ clPc = [c \in Callers |-> "idle"]
    /\ clHeld = [c \in Callers |-> 0]
    /\ clPanic = ""
    /\ clNow = 0
    /\ clSweep \in 1..defaultCleanupInterval
    /\ clLast = NoCloseCall

\* Close, its first statement: close(iml.stopCh)
CloseChannel(c) ==
    /\ clPanic = ""
    /\ clPc[c] = "idle"
    /\ IF clStopCh = "open"
       THEN /\ clStopCh' = "closed"
            /\ clPc' = [clPc EXCEPT ![c] = "clear"]
            /\ UNCHANGED <<clPanic, clLast>>
       ELSE /\ clPanic' = "close of closed channel"
            /\ clPc' = [clPc EXCEPT ![c] = "panicked"]
            /\ clLast' = [clLast EXCEPT !.op = "panic"]
            /\ UNCHANGED clStopCh
    /\ UNCHANGED <<clRule, clLoop, clMap, clEntries, clHeld, clNow, clSweep>>
    /\ UNCHANGED clRest

\* Close, the rest: the map is replaced by an empty one and nil is returned
CloseClear(c) ==
    /\ clPanic = ""
    /\ clPc[c] = "clear"
    /\ clMap' = 0
    /\ clEntries' = Collect(clEntries, 0, clHeld)
    /\ clPc' = [clPc EXCEPT ![c] = "idle"]
    /\ clLast' = [op |-> "close", closes |-> Min(clLast.closes + 1, Cardinality(Callers)),
                  allowed |-> FALSE]
    /\ UNCHANGED <<clRule, clStopCh, clLoop, clHeld, clPanic, clNow, clSweep>>
    /\ UNCHANGED clRest

\* cleanupLoop: the select receives from the closed stopCh and the loop returns
CloseLoopExit ==
    /\ clPanic = ""
    /\ clLoop = "running"
    /\ clStopCh = "closed"
    /\ clLoop' = "exited"
    /\ UNCHANGED <<clRule, clStopCh, clMap, clEntries, clPc, clHeld, clPanic, clNow, clSweep,
                   clLast>>
    /\ UNCHANGED clRest

\* cleanupLoop: the select receives the tick and cleanup removes a stale entry
CloseLoopSweep ==
    /\ clPanic = ""
    /\ clLoop = "running"
    /\ clNow = clSweep
    /\ clSweep' = clSweep + defaultCleanupInterval
    /\ IF clMap # 0 /\ IsStale(clEntries[clMap], clNow)
       THEN /\ clMap' = 0
            /\ clEntries' = Collect(clEntries, 0, clHeld)
       ELSE UNCHANGED <<clMap, clEntries>>
    /\ UNCHANGED <<clRule, clStopCh, clLoop, clPc, clHeld, clPanic, clNow, clLast>>
    /\ UNCHANGED clRest

\* Allow, getOrCreateEntry: the read-locked lookup
CloseLookup(c) ==
    /\ clPanic = ""
    /\ clPc[c] = "idle"
    /\ IF clMap # 0
       THEN /\ clPc' = [clPc EXCEPT ![c] = "exists"]
            /\ clHeld' = [clHeld EXCEPT ![c] = clMap]
       ELSE /\ clPc' = [clPc EXCEPT ![c] = "create"]
            /\ UNCHANGED clHeld
    /\ UNCHANGED <<clRule, clStopCh, clLoop, clMap, clEntries, clPanic, clNow, clSweep, clLast>>
    /\ UNCHANGED clRest

\* Allow, getOrCreateEntry: the entry was in the map; lastUsed and resetAt are
\* updated under the lock
CloseTouch(c) ==
    /\ clPanic = ""
    /\ clPc[c] = "exists"
    /\ clEntries' = [clEntries EXCEPT
                        ![clHeld[c]].lastUsed = clNow,
                        ![clHeld[c]].resetAt = UnixAfter(clNow, GetBlockDuration(clRule))]
    /\ clPc' = [clPc EXCEPT ![c] = "consult"]
    /\ UNCHANGED <<clRule, clStopCh, clLoop, clMap, clHeld, clPanic, clNow, clSweep, clLast>>
    /\ UNCHANGED clRest

\* Allow, getOrCreateEntry: the entry was not in the map; under the write lock
\* the entry another caller has put there meanwhile is used, or one is created
CloseCreate(c) ==
    /\ clPanic = ""
    /\ clPc[c] = "create"
    /\ IF clMap # 0
       THEN /\ clEntries' = [clEntries EXCEPT ![clMap].lastUsed = clNow]
            /\ clHeld' = [clHeld EXCEPT ![c] = clMap]
            /\ UNCHANGED clMap
       ELSE LET e == FreeEntryId(clMap, clHeld)
            IN  /\ clEntries' = [clEntries EXCEPT ![e] = newEntry(clRule, clNow)]
                /\ clHeld' = [clHeld EXCEPT ![c] = e]
                /\ clMap' = e
    /\ clPc' = [clPc EXCEPT ![c] = "consult"]
    /\ UNCHANGED <<clRule, clStopCh, clLoop, clPanic, clNow, clSweep, clLast>>
    /\ UNCHANGED clRest

\* Allow, after getOrCreateEntry: the bucket of the entry gives a token or not
CloseConsult(c) ==
    /\ clPanic = ""
    /\ clPc[c] = "consult"
    /\ LET e == clHeld[c]
           lim == clEntries[e].limiter
           held == [clHeld EXCEPT ![c] = 0]
       IN  /\ clEntries' = Collect([clEntries EXCEPT ![e].limiter = rateAfterAllow(lim, clNow)],
                                   clMap, held)
           /\ clHeld' = held
           /\ clLast' = [clLast EXCEPT !.op = "allow", !.allowed = rateAllow(lim, clNow)]
    /\ clPc' = [clPc EXCEPT ![c] = "idle"]
    /\ UNCHANGED <<clRule, clStopCh, clLoop, clMap, clPanic, clNow, clSweep>>
    /\ UNCHANGED clRest

\* a minute passes, between calls; a running loop does not miss its tick
CloseTick ==
    /\ clPanic = ""
    /\ clNow < MaxClock
    /\ \A c \in Callers : clPc[c] = "idle"
    /\ clLoop = "running" => clNow < clSweep
    /\ clNow' = clNow + 1
    /\ UNCHANGED <<clRule, clStopCh, clLoop, clMap, clEntries, clPc, clHeld, clPanic, clSweep,
                   clLast>>
    /\ UNCHANGED clRest

NextClose ==
    \/ \E c \in Callers : CloseChannel(c)
    \/ \E c \in Callers : CloseClear(c)
    \/ CloseLoopExit
    \/ CloseLoopSweep
    \/ \E c \in Callers : CloseLookup(c)
    \/ \E c \in Callers : CloseTouch(c)
    \/ \E c \in Callers : CloseCreate(c)
    \/ \E c \in Callers : CloseConsult(c)
    \/ CloseTick

\* the cleanupLoop goroutine is scheduled: once stopCh is closed its select
\* can only be left through the stopCh case or a pending tick
SpecClose == InitClose /\ [][NextClose]_vars /\ WF_vars(CloseLoopExit)

\* C39: Close halts the cleanup loop, and no Close, whether the first, a
\* repeated one or one racing another, and no Allow after Close ever panics.
C39_CloseRepeatable ==
    /\ [](clPanic = "")
    /\ (clStopCh = "closed" ~> clLoop = "exited")

\* what the code does: the first Close halts the loop unless a further Close
\* panics first, and Allow calls after Close are answered, from a new entry
\* of the new map or from the entry they held when the map was replaced
FirstCloseHaltsLoop ==
    /\ (clStopCh = "closed" ~> (clLoop = "exited" \/ clPanic # ""))
    /\ [](clLast.op = "allow" => clPanic = "")
    /\ [][clPanic' # clPanic => clStopCh = "closed"]_vars

\* a Close after a Close that has returned ends in a panic
SecondClosePanics ==
    /\ clLast.closes >= 1 /\ clPanic = "close of closed channel"

\* a request is answered after Close
AllowAfterClose ==
    /\ clLast.op = "allow" /\ clLast.closes >= 1 /\ clLast.allowed /\ clPanic = ""

\* a request that held its entry while Close replaced the map is answered
\* from that entry, and the map stays empty
AllowedOnClearedEntry ==
    /\ clLast.op = "allow" /\ clLast.closes >= 1 /\ clLast.allowed
    /\ clMap = 0 /\ \A c \in Callers : clPc[c] = "idle"

(***************************************************************************)
(* cmd/mcp/cmd/datasources_cmd.go: Auditor.Middleware and                  *)
(* extractDatasource.  A path is the sequence of its characters, so that   *)
(* len(path) and path[:n] are Len and SubSeq.  The auditor is the          *)
(* innermost layer of the chain that registerRoutes puts before the four   *)
(* datasource handlers; the other routes of the mux are served without it. *)
(***************************************************************************)

\* the characters a request adds after the beginning of its path
MaxTail == 2

TailChars == {"/", "q"}

RECURSIVE TailsOf(_)
\* the sequences of at most n tail characters
TailsOf(n) ==
    IF n = 0 THEN {<<>>}
    ELSE TailsOf(n - 1) \cup {t \o <<c>> : t \in {x \in TailsOf(n - 1) : Len(x) = n - 1},
                                          c \in TailChars}

clickhousePrefix == <<"/", "c", "l", "i", "c", "k", "h", "o", "u", "s", "e", "/">>

prometheusPrefix == <<"/", "p", "r", "o", "m", "e", "t", "h", "e", "u", "s", "/">>

lokiPrefix == <<"/", "l", "o", "k", "i", "/">>

s3Prefix == <<"/", "s", "3", "/">>

DatasourcePrefixes ==
    [clickhouse |-> clickhousePrefix, prometheus |-> prometheusPrefix,
     loki |-> lokiPrefix, s3 |-> s3Prefix]

Datasources == DOMAIN DatasourcePrefixes

PathHeads ==
    {<<>>,
     <<"/">>,
     <<"/", "c", "l", "i", "c", "k", "h", "o", "u", "s", "e">>,
     <<"/", "c", "l", "i", "c", "k", "h", "o", "u", "s", "e", "/">>,
     <<"/", "p", "r", "o", "m", "e", "t", "h", "e", "u", "s">>,
     <<"/", "p", "r", "o", "m", "e", "t", "h", "e", "u", "s", "/">>,
     <<"/", "l", "o", "k", "i">>,
     <<"/", "l", "o", "k", "i", "/">>,
     <<"/", "s", "3">>,
     <<"/", "s", "3", "/">>,
     <<"/", "s", "3", "x", "/">>,
     <<"/", "d", "a", "t", "a", "s", "o", "u", "r", "c", "e", "s">>,
     <<"/", "h", "e", "a", "l", "t", "h">>,
     <<"/", "r", "e", "a", "d", "y">>}

AuditPaths == {h \o t : h \in PathHeads, t \in TailsOf(MaxTail)}

AuditMethods == {"GET", "POST"}

\* strings.HasPrefix
HasPrefix(path, prefix) ==
    Len(path) >= Len(prefix) /\ SubSeq(path, 1, Len(prefix)) = prefix

\* path[:n], asked only when len(path) >= n
Slice(path, n) == SubSeq(path, 1, n)

\* extractDatasource
extractDatasource(path) ==
    IF Len(path) > 11 /\ Slice(path, 12) = clickhousePrefix THEN "clickhouse"
    ELSE IF Len(path) > 12 /\ Slice(path, 13) = prometheusPrefix THEN "prometheus"
    ELSE IF Len(path) > 5 /\ Slice(path, 6) = lokiPrefix THEN "loki"
    ELSE IF Len(path) > 3 /\ Slice(path, 4) = s3Prefix THEN "s3"
    ELSE "unknown"

RECURSIVE SqueezeFrom(_, _, _)
\* path.Clean on a rooted path without dot segments: a run of slashes
\* becomes one slash
SqueezeFrom(path, i, out) ==
    IF i > Len(path) THEN out
    ELSE IF path[i] = "/" /\ out # <<>> /\ out[Len(out)] = "/"
    THEN SqueezeFrom(path, i + 1, out)
    ELSE SqueezeFrom(path, i + 1, Append(out, path[i]))

\* path.Clean, the end: no trailing slash, but for the root
pathClean(path) ==
    LET np == SqueezeFrom(path, 1, <<>>)
    IN  IF Len(np) > 1 /\ np[Len(np)] = "/" THEN SubSeq(np, 1, Len(np) - 1) ELSE np

\* net/http cleanPath: the canonical path, which keeps a trailing slash
cleanPath(path) ==
    LET rooted == IF path = <<>> THEN <<"/">>
                  ELSE IF path[1] # "/" THEN <<"/">> \o path ELSE path
        np == pathClean(rooted)
    IN  IF path = <<>> THEN rooted
        ELSE IF rooted[Len(rooted)] = "/" /\ np # <<"/">> THEN Append(np, "/") ELSE np

\* http.ServeMux with the patterns of registerRoutes: a path that is not
\* canonical is answered by the mux with a redirect to the canonical one;
\* otherwise the datasource whose subtree pattern the path falls under, when
\* its handler is registered
muxDatasource(handlers, path) ==
    IF cleanPath(path) # path THEN "none"
    ELSE IF \E d \in handlers : HasPrefix(path, DatasourcePrefixes[d])
    THEN CHOOSE d \in handlers : HasPrefix(path, DatasourcePrefixes[d])
    ELSE "none"

InitAudit ==
    /\ adRestIdle
    /\ adHandlers \in SUBSET Datasources
    /\ adLast = NoAudit

\* a request to a datasource route passes Auditor.Middleware, which logs an entry
AuditedRequest ==
    /\ \E path \in AuditPaths, method \in AuditMethods :
          /\ muxDatasource(adHandlers, path) # "none"
          /\ adLast' = [op |-> "audited", Method |-> method, Path |-> path,
                        Datasource |-> extractDatasource(path)]
    /\ UNCHANGED adHandlers
    /\ UNCHANGED adRest

\* a request to any other route is served without an audit entry
UnauditedRequest ==
    /\ \E path \in AuditPaths, method \in AuditMethods :
          /\ muxDatasource(adHandlers, path) = "none"
          /\ adLast' = [op |-> "unaudited", Method |-> method, Path |-> path,
                        Datasource |-> ""]
    /\ UNCHANGED adHandlers
    /\ UNCHANGED adRest

NextAudit ==
    \/ AuditedRequest
    \/ UnauditedRequest

SpecAudit == InitAudit /\ [][NextAudit]_vars

\* the datasource the description gives a path: the one whose prefix the path
\* begins with and goes beyond, "unknown" when there is none
DescribedDatasource(path) ==
    IF \E d \in Datasources :
          HasPrefix(path, DatasourcePrefixes[d]) /\ Len(path) > Len(DatasourcePrefixes[d])
    THEN CHOOSE d \in Datasources :
          HasPrefix(path, DatasourcePrefixes[d]) /\ Len(path) > Len(DatasourcePrefixes[d])
    ELSE "unknown"

\* C40: the datasource of every audit entry is "clickhouse", "prometheus",
\* "loki" or "s3" when the path begins with "/clickhouse/", "/prometheus/",
\* "/loki/" or "/s3/" and has a further character, and "unknown" for every
\* other path.
C40_AuditDatasource ==
    adLast.op = "audited" => adLast.Datasource = DescribedDatasource(adLast.Path)

\* what the code does: "clickhouse", "loki" and "s3" for every path that
\* begins with the prefix, the prefix itself included, and "unknown" for every
\* other path, the paths under "/prometheus/" among them
DatasourceAsExtracted ==
    adLast.op = "audited" =>
        /\ adLast.Datasource # "prometheus"
        /\ \A d \in {"clickhouse", "loki", "s3"} :
              adLast.Datasource = d <=> HasPrefix(adLast.Path, DatasourcePrefixes[d])
        /\ adLast.Datasource = "unknown"
              <=> ~\E d \in {"clickhouse", "loki", "s3"} :
                      HasPrefix(adLast.Path, DatasourcePrefixes[d])

\* a request under "/prometheus/" is logged with the datasource "unknown"
PrometheusLoggedUnknown ==
    /\ adLast.op = "audited" /\ HasPrefix(adLast.Path, prometheusPrefix)
    /\ Len(adLast.Path) > Len(prometheusPrefix) /\ adLast.Datasource = "unknown"

====
